---- MODULE Spec2Model ----
(***************************************************************************)
(* Relevance scoring engine of global-hackathon-v1 (backend/utils/decider). *)
(*                                                                         *)
(* One request, RelevanceOrchestrator.analyzeRelevance(messages), as a     *)
(* state machine: the four fast heuristics run concurrently and complete   *)
(* in any order, Promise.all joins them, the fast score is fused, the LLM  *)
(* Meta-Judge is invoked or skipped, and the final score and reasoning are *)
(* returned.                                                               *)
(*                                                                         *)
(* Numbers.  JavaScript numbers are modelled as exact rationals [n, d]     *)
(* with d > 0, and NaN as [n |-> 0, d |-> 0].  The heuristics only produce *)
(* small decimal constants, so the rational value is the value the code    *)
(* computes up to IEEE rounding of the weighted average.                   *)
(*                                                                         *)
(* Text.  The heuristics decide by regular expressions over the message    *)
(* text.  A conversation is modelled by the facts those expressions        *)
(* extract from it (which pattern family matched, how many messages, whose *)
(* turn came before), and each heuristic is the decision ladder the code   *)
(* runs over these facts.                                                  *)
(***************************************************************************)
EXTENDS Integers, Sequences, FiniteSets, TLC

(***************************************************************************)
(* Bounds of the model.                                                    *)
(***************************************************************************)
\* longest conversation (number of messages) that is explored
MaxConvLen == 5

\* longest conversation whose dynamic weight is computed on its own
MaxTurns == 10

\* largest configured number of messages for the full weight
MaxFullCount == 8
MaxTextLen == 4

(***************************************************************************)
(* Exact arithmetic for JavaScript numbers.                                *)
(***************************************************************************)
Abs(x) == IF x < 0 THEN -x ELSE x

RECURSIVE GCD(_, _)
GCD(a, b) == IF b = 0 THEN a ELSE GCD(b, a % b)

\* the rational n/d in lowest terms, d > 0
Rat(n, d) ==
    LET g == GCD(Abs(n), Abs(d))
        s == IF d < 0 THEN -1 ELSE 1
    IN  [n |-> (s * n) \div g, d |-> (s * d) \div g]

Num(k) == [n |-> k, d |-> 1]

\* tenths and hundredths, as the decimal literals of the source
Dec1(k) == Rat(k, 10)
Dec2(k) == Rat(k, 100)

NaN == [n |-> 0, d |-> 0]
\* JavaScript `undefined` where a number is expected (an absent field)
Undefined == [n |-> 0, d |-> -1]

IsNaN(x) == x.d = 0
IsUndefined(x) == x.d < 0
IsNumber(x) == x.d > 0

RAdd(a, b) ==
    IF ~IsNumber(a) \/ ~IsNumber(b) THEN NaN
    ELSE LET g == GCD(a.d, b.d)
         IN  Rat(a.n * (b.d \div g) + b.n * (a.d \div g), (a.d \div g) * b.d)

RSub(a, b) == RAdd(a, [n |-> -b.n, d |-> b.d])

RMul(a, b) ==
    IF ~IsNumber(a) \/ ~IsNumber(b) THEN NaN
    ELSE LET g1 == GCD(Abs(a.n), b.d)
             g2 == GCD(Abs(b.n), a.d)
             h1 == IF g1 = 0 THEN 1 ELSE g1
             h2 == IF g2 = 0 THEN 1 ELSE g2
         IN  Rat((a.n \div h1) * (b.n \div h2), (a.d \div h2) * (b.d \div h1))

\* a / b for b # 0
RDiv(a, b) ==
    IF ~IsNumber(a) \/ ~IsNumber(b) \/ b.n = 0 THEN NaN
    ELSE RMul(a, Rat(b.d, b.n))

\* comparisons: every comparison with NaN is false, as in JavaScript
RLt(a, b) == IsNumber(a) /\ IsNumber(b) /\ a.n * b.d < b.n * a.d
RLe(a, b) == IsNumber(a) /\ IsNumber(b) /\ a.n * b.d <= b.n * a.d
RGt(a, b) == RLt(b, a)
RGe(a, b) == RLe(b, a)

\* Math.max / Math.min: NaN when an argument is not a number
MathMax(a, b) == IF ~IsNumber(a) \/ ~IsNumber(b) THEN NaN ELSE IF RLt(a, b) THEN b ELSE a
MathMin(a, b) == IF ~IsNumber(a) \/ ~IsNumber(b) THEN NaN ELSE IF RLt(b, a) THEN b ELSE a

\* JavaScript `x || dflt` on a number: 0, NaN and undefined are falsy
OrElse(x, dflt) == IF ~IsNumber(x) \/ x.n = 0 THEN dflt ELSE x


(***************************************************************************)
(* Configuration: the orchestrator built in controller/verifier.js.        *)
(***************************************************************************)
NameMentionHeuristic == "NameMentionHeuristic"
PronounSyntaxHeuristic == "PronounSyntaxHeuristic"
ConversationalFlowAnalyzer == "ConversationalFlowAnalyzer"
SemanticSimilarityModule == "SemanticSimilarityModule"
LLMMetaJudge == "LLMMetaJudge"

\* this.heuristics, in construction order; the first four are the fast ones
heuristics ==
    << NameMentionHeuristic, PronounSyntaxHeuristic, ConversationalFlowAnalyzer,
       SemanticSimilarityModule, LLMMetaJudge >>

\* fastHeuristics = heuristics.filter(h => h.getName() !== 'LLMMetaJudge')
FastIdx == {i \in DOMAIN heuristics : heuristics[i] # LLMMetaJudge}

\* llmMetaJudge = heuristics.find(h => h.getName() === 'LLMMetaJudge')
JudgeIdx == CHOOSE i \in DOMAIN heuristics : heuristics[i] = LLMMetaJudge

\* weights that give every analyzer the same share
getWeightEqual(name) == Dec2(20)

\* getWeight() of each heuristic under the deployed weights
getWeight(name) ==
    CASE name = NameMentionHeuristic -> Dec2(30)
      [] name = PronounSyntaxHeuristic -> Dec2(25)
      [] name = ConversationalFlowAnalyzer -> Dec2(20)
      [] name = SemanticSimilarityModule -> Dec2(5)
      [] name = LLMMetaJudge -> Dec2(20)

\* SemanticSimilarityModule: messages needed for the full weight, and the
\* weight of very short conversations
minMessagesForFullWeight == 6
minWeight == Dec2(1)

\* ConversationalFlowAnalyzer: messages.slice(-maxHistoryLength)
maxHistoryLength == 10

(***************************************************************************)
(* A heuristic's result object.  adjustedWeight is Undefined unless the    *)
(* heuristic sets it; reasoning is the list of its text fragments.         *)
(***************************************************************************)
Result(score, reasoning, confidence, adjustedWeight) ==
    [score |-> score, reasoning |-> reasoning, confidence |-> confidence,
     adjustedWeight |-> adjustedWeight]

\* what an invocation of analyze() gives: a returned result or an exception
Returned(res) == [threw |-> FALSE, res |-> res]
Thrown == [threw |-> TRUE, res |-> Result(NaN, <<>>, NaN, Undefined)]

\* a neutral result for a last message that is not the user's
NotFromUserNeutral == Result(Num(5), <<"Last message is not from user">>, Dec1(5), Undefined)

NoMessages == Result(Num(0), <<"No messages to analyze">>, Num(1), Undefined)
NotFromUser == Result(Num(0), <<"Last message is not from user">>, Num(1), Undefined)

\* `!messages || messages.length === 0`, then `lastMessage.role !== 'user'`:
\* the guard every heuristic starts with.  A last element that is no object
\* makes `lastMessage.role` throw.
LastIsNull(conv) == conv.shape = "null_last"
LastRole(conv) == IF conv.shape = "assistant_last" THEN "assistant" ELSE "user"
\* the last message's content is no string: content.toLowerCase() throws
LastContentBad(conv) == conv.shape = "bad_last"

(***************************************************************************)
(* NameMentionHeuristic.analyze                                            *)
(***************************************************************************)
isThirdPersonReference(conv) == conv.name = "third_person"
includesAiName(conv) == conv.name \in {"third_person", "direct", "unclear"}
isDirectAddress(conv) == conv.name \in {"direct", "alias_direct"}
includesAlias(conv) == conv.name \in {"third_person", "direct", "unclear", "alias", "alias_direct"}
hasAddressPatterns(conv) == conv.name = "pattern"

NameMentionAnalyze(conv) ==
    IF conv.len = 0 THEN Returned(NoMessages)
    ELSE IF LastIsNull(conv) THEN Thrown
    ELSE IF LastRole(conv) # "user" THEN Returned(NotFromUser)
    ELSE IF LastContentBad(conv) THEN Thrown
    ELSE LET r ==
               IF isThirdPersonReference(conv)
               THEN Result(Num(1), <<"Third-person reference detected">>, Dec1(9), Undefined)
               ELSE IF includesAiName(conv)
               THEN IF isDirectAddress(conv)
                    THEN Result(Num(10), <<"Direct address to AI name detected">>, Num(1), Undefined)
                    ELSE Result(Num(3), <<"AI name mentioned but context unclear">>, Dec1(6), Undefined)
               ELSE IF includesAlias(conv)
               THEN IF isDirectAddress(conv)
                    THEN Result(Num(8), <<"Direct address using AI alias">>, Num(1), Undefined)
                    ELSE Result(Num(2), <<"AI alias mentioned but unclear context">>, Dec1(6), Undefined)
               ELSE IF hasAddressPatterns(conv)
               THEN Result(Num(6), <<"Potential address pattern detected">>, Dec1(7), Undefined)
               ELSE Result(Num(0), <<"No name mentions or address patterns found">>, Num(1), Undefined)
         IN  Returned([r EXCEPT !.score = MathMax(Num(0), MathMin(Num(10), r.score))])

(***************************************************************************)
(* PronounSyntaxHeuristic.analyze                                          *)
(***************************************************************************)
\* calculateConfidence(matchedPatterns, content)
calculateConfidence(syn) ==
    LET c0 == Dec1(7)
        c1 == IF syn.many THEN RAdd(c0, Dec1(2)) ELSE c0
        c2 == IF syn.size = "long" THEN RAdd(c1, Dec1(1)) ELSE c1
        c3 == IF syn.size = "short" THEN RSub(c2, Dec1(2)) ELSE c2
    IN  MathMax(Dec1(3), MathMin(Num(1), c3))

PronounSyntaxAnalyze(conv) ==
    IF conv.len = 0 THEN Returned(NoMessages)
    ELSE IF LastIsNull(conv) THEN Thrown
    ELSE IF LastRole(conv) # "user" THEN Returned(NotFromUser)
    ELSE IF LastContentBad(conv) THEN Thrown
    ELSE LET syn == conv.syn
             r == IF syn.top > 0
                  THEN Result(Num(syn.top), <<"Detected patterns">>, calculateConfidence(syn), Undefined)
                  ELSE IF syn.third
                  THEN Result(Num(1), <<"Third-person reference detected (likely not addressing AI)">>,
                              Dec1(8), Undefined)
                  ELSE Result(Num(3), <<"No clear pronoun/syntax patterns detected">>, Dec1(5), Undefined)
         IN  Returned([r EXCEPT !.score = MathMax(Num(0), MathMin(Num(10), r.score))])

(***************************************************************************)
(* ConversationalFlowAnalyzer.analyze                                      *)
(***************************************************************************)
\* recentMessages = messages.slice(-this.maxHistoryLength)
RecentLen(conv) == IF conv.len < maxHistoryLength THEN conv.len ELSE maxHistoryLength

Sub(score, reason) == [score |-> score, reason |-> reason]
NoSub == Sub(0, "")

\* analyzeFlow(recentMessages): messages.filter(msg => msg.role === ...)
\* throws on an element that is no object
analyzeFlowThrows(conv) == conv.shape = "null_prev"

\* analyzeFollowUp: reads previousMessage.content when it is the assistant's
analyzeFollowUpThrows(conv) == conv.shape = "bad_prev_ai"

analyzeFollowUp(conv) ==
    IF RecentLen(conv) < 2 THEN NoSub
    ELSE IF conv.prevRole = "assistant"
    THEN IF conv.flow.follow \in {"strong", "answer"}
         THEN IF conv.flow.follow = "strong"
              THEN Sub(9, "Strong response to AI's question")
              ELSE Sub(8, "Response following AI question")
         ELSE IF conv.flow.follow = "general"
              THEN Sub(7, "Follow-up indicators to AI response")
              ELSE Sub(6, "Direct follow-up to AI message")
    ELSE NoSub


\* a continuity that reports nothing for a short or unbalanced conversation
analyzeContinuityIfBalanced(conv) ==
    IF RecentLen(conv) < 3 THEN NoSub
    ELSE LET a == conv.aiCount
             u == RecentLen(conv) - conv.aiCount
             lo == IF u < a THEN u ELSE a
             hi == IF u < a THEN a ELSE u
         IN  IF u > 0 /\ a > 0 /\ RGt(Rat(lo, hi), Dec1(7))
             THEN Sub(7, "Balanced conversational exchange")
             ELSE IF u > 0 /\ a > 0 /\ RGt(Rat(lo, hi), Dec1(4))
             THEN Sub(5, "Moderate conversational exchange")
             ELSE NoSub

analyzeContinuity(conv) ==
    IF RecentLen(conv) < 3 THEN Sub(3, "Limited conversation history")
    ELSE LET a == conv.aiCount
             u == RecentLen(conv) - conv.aiCount
             lo == IF u < a THEN u ELSE a
             hi == IF u < a THEN a ELSE u
         IN  IF u > 0 /\ a > 0 /\ RGt(Rat(lo, hi), Dec1(7))
             THEN Sub(7, "Balanced conversational exchange")
             ELSE IF u > 0 /\ a > 0 /\ RGt(Rat(lo, hi), Dec1(4))
             THEN Sub(5, "Moderate conversational exchange")
             ELSE Sub(3, "Unbalanced conversation flow")

analyzeEngagement(conv) ==
    IF conv.flow.engagement = "high" THEN Sub(7, "High engagement indicators")
    ELSE IF conv.flow.engagement = "medium" THEN Sub(5, "Moderate engagement indicators")
    ELSE NoSub

analyzeConversationGaps(conv) ==
    IF RecentLen(conv) >= 2 /\ conv.prevRole = "user" /\ LastRole(conv) = "user"
    THEN Sub(6, "Multiple consecutive user messages (expecting response)")
    ELSE NoSub

\* analyzeTopicCoherence compares the last message with messages[-3] and then
\* messages[-2], stopping at the first overlap; reading the content of a
\* message that has none throws
analyzeTopicCoherenceThrows(conv) ==
    /\ RecentLen(conv) >= 3
    /\ conv.shape = "bad_prev_user"
    /\ conv.flow.overlap # "first"

analyzeTopicCoherence(conv) ==
    IF RecentLen(conv) < 3 THEN NoSub
    ELSE IF conv.flow.overlap # "none"
    THEN Sub(6, "Topic coherence with previous messages")
    ELSE NoSub

\* the sub-scores in the order analyze() evaluates them
FlowSubs(conv) ==
    << analyzeFollowUp(conv), analyzeContinuity(conv), analyzeEngagement(conv),
       analyzeConversationGaps(conv), analyzeTopicCoherence(conv) >>

\* flowIndicators: the reasons of the sub-scores that are > 0, in order
RECURSIVE FlowIndicators(_)
FlowIndicators(subs) ==
    IF subs = <<>> THEN <<>>
    ELSE IF Head(subs).score > 0
    THEN <<Head(subs).reason>> \o FlowIndicators(Tail(subs))
    ELSE FlowIndicators(Tail(subs))

RECURSIVE FlowMax(_)
FlowMax(subs) ==
    IF subs = <<>> THEN 0
    ELSE LET m == FlowMax(Tail(subs))
         IN  IF Head(subs).score > 0 /\ Head(subs).score > m THEN Head(subs).score ELSE m

ConversationalFlowAnalyze(conv) ==
    IF conv.len = 0 THEN Returned(NoMessages)
    ELSE IF LastIsNull(conv) THEN Thrown
    ELSE IF LastRole(conv) # "user" THEN Returned(NotFromUser)
    ELSE IF \/ analyzeFlowThrows(conv)
            \/ analyzeFollowUpThrows(conv)
            \/ LastContentBad(conv)
            \/ analyzeTopicCoherenceThrows(conv)
    THEN Thrown
    ELSE LET subs == FlowSubs(conv)
             flowIndicators == FlowIndicators(subs)
             n == Len(flowIndicators)
             score == IF n = 0 THEN Num(4) ELSE Num(FlowMax(subs))
             reasoning == IF n = 0 THEN <<"No clear conversational flow indicators">>
                          ELSE <<"Flow indicators">> \o SubSeq(flowIndicators, 1, IF n < 2 THEN n ELSE 2)
             confidence == IF n = 0 THEN Dec1(5)
                           ELSE MathMin(Num(1), RAdd(Dec1(6), RMul(Num(n), Dec1(1))))
         IN  Returned(Result(MathMax(Num(0), MathMin(Num(10), score)), reasoning,
                             confidence, Undefined))

(***************************************************************************)
(* SemanticSimilarityModule.analyze                                        *)
(***************************************************************************)
baseWeight == getWeight(SemanticSimilarityModule)

calculateDynamicWeight(conversationLength) ==
    IF conversationLength <= 2 THEN minWeight
    ELSE IF conversationLength <= 4 THEN RMul(baseWeight, Dec1(5))
    ELSE IF conversationLength < minMessagesForFullWeight
    THEN LET progress == Rat(conversationLength - 4, minMessagesForFullWeight - 4)
         IN  RMul(baseWeight, RAdd(Dec1(5), RMul(Dec1(5), progress)))
    ELSE baseWeight

\* findLastAiMessage(messages): scans back from messages[length - 2]
findLastAiMessageThrows(conv) == conv.shape = "null_prev"
HasLastAiMessage(conv) == conv.aiCount > 0

\* reading userContent / aiContent
SemanticContentThrows(conv) ==
    \/ LastContentBad(conv)
    \/ conv.shape \in {"bad_prev_ai", "bad_old_ai"}

SemanticSimilarityAnalyze(conv) ==
    IF conv.len = 0 THEN Returned(NoMessages)
    ELSE IF LastIsNull(conv) THEN Thrown
    ELSE IF LastRole(conv) # "user" THEN Returned(NotFromUser)
    ELSE IF findLastAiMessageThrows(conv) THEN Thrown
    ELSE LET dynamicWeight == calculateDynamicWeight(conv.len)
             sem == conv.sem
             high == sem.sim = "high"
             moderate == sem.sim \in {"high", "moderate"}
         IN  IF ~HasLastAiMessage(conv)
             THEN Returned(Result(IF conv.len <= 2 THEN Num(1) ELSE Num(3),
                                  <<"No previous AI message to compare">>, Dec1(5), dynamicWeight))
             ELSE IF SemanticContentThrows(conv) THEN Thrown
             ELSE LET r ==
                        IF conv.len <= 2
                        THEN Result(Num(0), <<"Short conversation - semantic similarity less reliable">>,
                                    Dec1(3), dynamicWeight)
                        ELSE IF conv.len <= 4
                        THEN IF high
                             THEN Result(Num(6), <<"Moderate semantic similarity in short conversation">>,
                                         Dec1(6), dynamicWeight)
                             ELSE IF sem.topical > 6
                             THEN Result(Num(IF sem.topical < 6 THEN sem.topical ELSE 6),
                                         <<"Topical relevance", "short conversation">>,
                                         Dec1(5), dynamicWeight)
                             ELSE IF sem.ref > 0
                             THEN Result(Num(sem.ref), <<"Reference to AI's previous message">>,
                                         Dec1(7), dynamicWeight)
                             ELSE Result(Num(1), <<"Low semantic similarity in short conversation">>,
                                         Dec1(4), dynamicWeight)
                        ELSE IF high
                             THEN Result(Num(8), <<"High semantic similarity to previous AI message">>,
                                         Dec1(9), dynamicWeight)
                             ELSE IF moderate
                             THEN Result(Num(6), <<"Moderate semantic similarity to previous AI message">>,
                                         Dec1(8), dynamicWeight)
                             ELSE IF sem.topical > 6
                             THEN Result(Num(sem.topical), <<"Topical relevance">>, Dec1(7), dynamicWeight)
                             ELSE IF sem.ref > 0
                             THEN Result(Num(sem.ref), <<"Reference to AI's previous message">>,
                                         Dec1(8), dynamicWeight)
                             ELSE Result(Num(2), <<"Low semantic similarity to previous AI message">>,
                                         Dec1(6), dynamicWeight)
                  IN  Returned([r EXCEPT !.score = MathMax(Num(0), MathMin(Num(10), r.score))])

(***************************************************************************)
(* LLMMetaJudge.analyze                                                    *)
(*                                                                         *)
(* A reply of the chat-completion service is what the code extracts from   *)
(* it: "error" (the call rejects, or the completion carries no message     *)
(* text), "json" (JSON.parse gives an object; score and confidence are its *)
(* fields: a number, Undefined when absent, NaN for a text that is no      *)
(* number) or "text" (JSON.parse throws; score and confidence are the      *)
(* decimals the fallback expressions match, Undefined when none matches).  *)
(***************************************************************************)
Reply(kind, score, confidence) == [kind |-> kind, score |-> score, confidence |-> confidence]
NoReply == Reply("none", Undefined, Undefined)

\* `field || dflt` on a parsed JSON field: absent and 0 are falsy, a
\* non-numeric text is truthy and stays
FieldOr(x, dflt) == IF IsUndefined(x) \/ (IsNumber(x) /\ x.n = 0) THEN dflt ELSE x

\* `match ? parseFloat(match[1]) : dflt`
MatchOr(x, dflt) == IF IsUndefined(x) THEN dflt ELSE x

parseResponse(reply) ==
    IF reply.kind = "json"
    THEN LET score == FieldOr(reply.score, Num(5))
             confidence == FieldOr(reply.confidence, Dec1(7))
         IN  Result(MathMax(Num(1), MathMin(Num(10), score)),
                    <<"LLM Meta-Judge", "parsed">>,
                    MathMax(Dec1(1), MathMin(Num(1), confidence)), Undefined)
    ELSE LET score == MatchOr(reply.score, Num(5))
             confidence == MatchOr(reply.confidence, Dec1(5))
         IN  Result(MathMax(Num(1), MathMin(Num(10), score)),
                    <<"LLM Meta-Judge", "fallback parsing">>,
                    MathMax(Dec1(1), MathMin(Num(1), confidence)), Undefined)

\* a catch block that returns the lowest score instead of the neutral one
LLMFailedLow == Result(Num(1), <<"LLM analysis failed - using neutral score">>, Dec1(3), Undefined)

\* the catch block of analyze()
LLMFailed == Result(Num(5), <<"LLM analysis failed - using neutral score">>, Dec1(3), Undefined)

\* prepareConversationContext(messages): messages.slice(-5).map(msg => msg.role ...)
prepareConversationContextThrows(conv) == conv.shape = "null_prev"

\* whether analyze() reaches `await modelAPI.chat.completions.create(...)`
IssuesModelCall(conv) ==
    /\ conv.len > 0
    /\ ~LastIsNull(conv)
    /\ LastRole(conv) = "user"
    /\ ~prepareConversationContextThrows(conv)

\* analyze(), given the reply of the model call when one is issued
LLMMetaJudgeAnalyze(conv, reply) ==
    IF conv.len = 0 THEN Returned(NoMessages)
    ELSE IF LastIsNull(conv) THEN Thrown
    ELSE IF LastRole(conv) # "user" THEN Returned(NotFromUser)
    ELSE IF prepareConversationContextThrows(conv) THEN Returned(LLMFailed)
    ELSE IF reply.kind = "error" THEN Returned(LLMFailed)
    ELSE Returned(parseResponse(reply))

(***************************************************************************)
(* RelevanceOrchestrator                                                   *)
(***************************************************************************)
\* { name: heuristic.getName(), weight: heuristic.getWeight(), ...result }
Entry(name, res) ==
    [name |-> name, weight |-> getWeight(name), score |-> res.score,
     reasoning |-> res.reasoning, confidence |-> res.confidence,
     adjustedWeight |-> res.adjustedWeight]

\* a slot of the Promise.all result array that is not filled yet
Pending == [name |-> "pending", weight |-> Num(0), score |-> Num(0), reasoning |-> <<>>,
            confidence |-> Num(1), adjustedWeight |-> Undefined]

\* heuristic.analyze(messages) of fast heuristic i
Analyze(i, conv) ==
    CASE heuristics[i] = NameMentionHeuristic -> NameMentionAnalyze(conv)
      [] heuristics[i] = PronounSyntaxHeuristic -> PronounSyntaxAnalyze(conv)
      [] heuristics[i] = ConversationalFlowAnalyzer -> ConversationalFlowAnalyze(conv)
      [] heuristics[i] = SemanticSimilarityModule -> SemanticSimilarityAnalyze(conv)

\* the catch block of the fan-out: the entry that replaces a heuristic that threw
FastFallback(name) ==
    Entry(name, Result(Num(5), <<"Error in", name>>, Dec1(1), Undefined))

\* a promise of the fan-out that rejected
Rejected == [Pending EXCEPT !.name = "rejected"]

\* the body of the map callback without its try/catch: a throw rejects the promise
FastUncaught(i, conv) ==
    LET out == Analyze(i, conv)
    IN  IF out.threw THEN Rejected ELSE Entry(heuristics[i], out.res)

\* the body of fastHeuristics.map(async (heuristic) => { try ... catch ... })
FastOutcome(i, conv) ==
    LET out == Analyze(i, conv)
    IN  IF out.threw THEN FastFallback(heuristics[i]) ELSE Entry(heuristics[i], out.res)

\* results.find(r => r.name === name): its index, 0 when there is none
FindIdx(results, name) ==
    IF \E i \in DOMAIN results : results[i].name = name
    THEN CHOOSE i \in DOMAIN results :
            /\ results[i].name = name
            /\ \A j \in DOMAIN results : results[j].name = name => i <= j
    ELSE 0

RECURSIVE RSum(_)
RSum(xs) == IF xs = <<>> THEN Num(0) ELSE RAdd(Head(xs), RSum(Tail(xs)))

RECURSIVE RMaxOf(_)
RMaxOf(xs) == IF Len(xs) = 1 THEN Head(xs) ELSE MathMax(Head(xs), RMaxOf(Tail(xs)))
RECURSIVE RMinOf(_)
RMinOf(xs) == IF Len(xs) = 1 THEN Head(xs) ELSE MathMin(Head(xs), RMinOf(Tail(xs)))

SelectIdx(results, Keep(_)) == SelectSeq([i \in DOMAIN results |-> i], Keep)

\* a damping whose mean leaves out the judge's entry as well
AdjustedWeightOfFast(results, i) ==
    LET result == results[i]
        w0 == OrElse(result.weight, Num(0))
        w1 == IF result.name = SemanticSimilarityModule /\ ~IsUndefined(result.adjustedWeight)
              THEN result.adjustedWeight ELSE w0
        KeepOther(j) == /\ results[j].name # NameMentionHeuristic
                        /\ results[j].name # SemanticSimilarityModule
                        /\ results[j].name # LLMMetaJudge
        others == SelectIdx(results, KeepOther)
        otherScores == [k \in DOMAIN others |-> OrElse(results[others[k]].score, Num(0))]
        avgOtherScore == IF Len(otherScores) > 0
                         THEN RDiv(RSum(otherScores), Num(Len(otherScores)))
                         ELSE Num(5)
    IN  IF result.name = NameMentionHeuristic /\ RGe(result.score, Num(8))
        THEN IF RLt(avgOtherScore, Num(4)) THEN RMul(w1, Dec1(3))
             ELSE IF RLt(avgOtherScore, Num(6)) THEN RMul(w1, Dec1(7))
             ELSE w1
        ELSE w1

\* a damping that silences the name mention when the other heuristics score low
AdjustedWeightMuted(results, i) ==
    LET result == results[i]
        w0 == OrElse(result.weight, Num(0))
        w1 == IF result.name = SemanticSimilarityModule /\ ~IsUndefined(result.adjustedWeight)
              THEN result.adjustedWeight ELSE w0
        KeepOther(j) == /\ results[j].name # NameMentionHeuristic
                        /\ results[j].name # SemanticSimilarityModule
        others == SelectIdx(results, KeepOther)
        otherScores == [k \in DOMAIN others |-> OrElse(results[others[k]].score, Num(0))]
        avgOtherScore == IF Len(otherScores) > 0
                         THEN RDiv(RSum(otherScores), Num(Len(otherScores)))
                         ELSE Num(5)
    IN  IF result.name = NameMentionHeuristic /\ RGe(result.score, Num(8))
        THEN IF RLt(avgOtherScore, Num(4)) THEN Num(0)
             ELSE IF RLt(avgOtherScore, Num(6)) THEN RMul(w1, Dec1(7))
             ELSE w1
        ELSE w1

\* the weight calculateWeightedScore gives results[i]
AdjustedWeight(results, i) ==
    LET result == results[i]
        w0 == OrElse(result.weight, Num(0))
        w1 == IF result.name = SemanticSimilarityModule /\ ~IsUndefined(result.adjustedWeight)
              THEN result.adjustedWeight ELSE w0
        KeepOther(j) == /\ results[j].name # NameMentionHeuristic
                        /\ results[j].name # SemanticSimilarityModule
        others == SelectIdx(results, KeepOther)
        otherScores == [k \in DOMAIN others |-> OrElse(results[others[k]].score, Num(0))]
        avgOtherScore == IF Len(otherScores) > 0
                         THEN RDiv(RSum(otherScores), Num(Len(otherScores)))
                         ELSE Num(5)
    IN  IF result.name = NameMentionHeuristic /\ RGe(result.score, Num(8))
        THEN IF RLt(avgOtherScore, Num(4)) THEN RMul(w1, Dec1(3))
             ELSE IF RLt(avgOtherScore, Num(6)) THEN RMul(w1, Dec1(7))
             ELSE w1
        ELSE w1

\* totalScore / totalWeight: the confidence-weighted average, before the bonus
weightedAverage(results) ==
    LET finalWeight == [i \in DOMAIN results |->
                           RMul(AdjustedWeight(results, i), OrElse(results[i].confidence, Num(1)))]
        totalScore == RSum([i \in DOMAIN results |->
                           RMul(OrElse(results[i].score, Num(0)), finalWeight[i])])
        totalWeight == RSum(finalWeight)
    IN  IF RGt(totalWeight, Num(0)) THEN RDiv(totalScore, totalWeight) ELSE Num(0)

\* a fusion that never adds the bonus
noClarityBonus(results) == Num(0)

clarityBonus(results) ==
    LET ni == FindIdx(results, NameMentionHeuristic)
        pi == FindIdx(results, PronounSyntaxHeuristic)
    IN  IF /\ ni # 0 /\ RGe(results[ni].score, Num(10))
           /\ pi # 0 /\ RGe(results[pi].score, Num(6))
           /\ RGe(results[ni].confidence, Dec1(8))
        THEN Num(1) ELSE Num(0)

calculateWeightedScore(results) ==
    LET finalWeight == [i \in DOMAIN results |->
                           RMul(AdjustedWeight(results, i), OrElse(results[i].confidence, Num(1)))]
        totalScore == RSum([i \in DOMAIN results |->
                           RMul(OrElse(results[i].score, Num(0)), finalWeight[i])])
        totalWeight == RSum(finalWeight)
        baseScore == IF RGt(totalWeight, Num(0)) THEN RDiv(totalScore, totalWeight) ELSE Num(0)
    IN  MathMin(Num(10), RAdd(baseScore, clarityBonus(results)))

\* the decision without its `fastScore >= 8.5` skip
shouldRunWithoutSkip(fastResults, fastScore) ==
    LET ni == FindIdx(fastResults, NameMentionHeuristic)
        pi == FindIdx(fastResults, PronounSyntaxHeuristic)
        scores == [i \in DOMAIN fastResults |-> fastResults[i].score]
        disagreement == RSub(RMaxOf(scores), RMinOf(scores))
        avgConfidence == RDiv(RSum([i \in DOMAIN fastResults |->
                                       OrElse(fastResults[i].confidence, Dec1(7))]),
                              Num(Len(fastResults)))
    IN  IF /\ ni # 0 /\ RGe(fastResults[ni].score, Num(8))
           /\ pi # 0 /\ RGe(fastResults[pi].score, Num(6))
        THEN TRUE
        ELSE IF RGe(fastScore, Num(3)) /\ RLe(fastScore, Num(8)) THEN TRUE
        ELSE IF RGt(disagreement, Num(4)) THEN TRUE
        ELSE IF RLt(avgConfidence, Dec1(6)) THEN TRUE
        ELSE FALSE

\* the decision without its middle-band test
shouldRunWithoutBand(fastResults, fastScore) ==
    LET ni == FindIdx(fastResults, NameMentionHeuristic)
        pi == FindIdx(fastResults, PronounSyntaxHeuristic)
        scores == [i \in DOMAIN fastResults |-> fastResults[i].score]
        disagreement == RSub(RMaxOf(scores), RMinOf(scores))
        avgConfidence == RDiv(RSum([i \in DOMAIN fastResults |->
                                       OrElse(fastResults[i].confidence, Dec1(7))]),
                              Num(Len(fastResults)))
    IN  IF /\ ni # 0 /\ RGe(fastResults[ni].score, Num(8))
           /\ pi # 0 /\ RGe(fastResults[pi].score, Num(6))
        THEN TRUE
        ELSE IF RGe(fastScore, Rat(85, 10)) THEN FALSE
        ELSE IF RGt(disagreement, Num(4)) THEN TRUE
        ELSE IF RLt(avgConfidence, Dec1(6)) THEN TRUE
        ELSE FALSE

\* the decision with the `fastScore >= 8.5` skip tested first
shouldRunSkipFirst(fastResults, fastScore) ==
    LET ni == FindIdx(fastResults, NameMentionHeuristic)
        pi == FindIdx(fastResults, PronounSyntaxHeuristic)
        scores == [i \in DOMAIN fastResults |-> fastResults[i].score]
        disagreement == RSub(RMaxOf(scores), RMinOf(scores))
        avgConfidence == RDiv(RSum([i \in DOMAIN fastResults |->
                                       OrElse(fastResults[i].confidence, Dec1(7))]),
                              Num(Len(fastResults)))
    IN  IF RGe(fastScore, Rat(85, 10)) THEN FALSE
        ELSE IF /\ ni # 0 /\ RGe(fastResults[ni].score, Num(8))
                /\ pi # 0 /\ RGe(fastResults[pi].score, Num(6))
        THEN TRUE
        ELSE IF RGe(fastScore, Num(3)) /\ RLe(fastScore, Num(8)) THEN TRUE
        ELSE IF RGt(disagreement, Num(4)) THEN TRUE
        ELSE IF RLt(avgConfidence, Dec1(6)) THEN TRUE
        ELSE FALSE

shouldRunLLMMetaJudge(fastResults, fastScore) ==
    LET ni == FindIdx(fastResults, NameMentionHeuristic)
        pi == FindIdx(fastResults, PronounSyntaxHeuristic)
        scores == [i \in DOMAIN fastResults |-> fastResults[i].score]
        disagreement == RSub(RMaxOf(scores), RMinOf(scores))
        avgConfidence == RDiv(RSum([i \in DOMAIN fastResults |->
                                       OrElse(fastResults[i].confidence, Dec1(7))]),
                              Num(Len(fastResults)))
    IN  IF /\ ni # 0 /\ RGe(fastResults[ni].score, Num(8))
           /\ pi # 0 /\ RGe(fastResults[pi].score, Num(6))
        THEN TRUE
        ELSE IF RGe(fastScore, Rat(85, 10)) THEN FALSE
        ELSE IF RGe(fastScore, Num(3)) /\ RLe(fastScore, Num(8)) THEN TRUE
        ELSE IF RGt(disagreement, Num(4)) THEN TRUE
        ELSE IF RLt(avgConfidence, Dec1(6)) THEN TRUE
        ELSE FALSE

\* contribution: (r.weight || 0) * (r.score || 0) * (r.confidence || 1.0)
Contribution(r) ==
    RMul(RMul(OrElse(r.weight, Num(0)), OrElse(r.score, Num(0))), OrElse(r.confidence, Num(1)))

\* Array.prototype.sort((a, b) => b.contribution - a.contribution) is stable:
\* x goes before the first element whose contribution is smaller
RECURSIVE InsertSorted(_, _)
InsertSorted(sorted, x) ==
    IF sorted = <<>> THEN <<x>>
    ELSE IF RLt(Contribution(Head(sorted)), Contribution(x))
    THEN <<x>> \o sorted
    ELSE <<Head(sorted)>> \o InsertSorted(Tail(sorted), x)

RECURSIVE SortByContribution(_, _)
SortByContribution(sorted, rest) ==
    IF rest = <<>> THEN sorted
    ELSE SortByContribution(InsertSorted(sorted, Head(rest)), Tail(rest))

\* a reasoning string: its opening phrase, the factors listed after it, and
\* the score shown when no factor is listed
Reasoning(decision, factors, shown) == [decision |-> decision, factors |-> factors, shown |-> shown]
PlainReasoning(text) == Reasoning(text, <<>>, Undefined)

generateReasoning(results, finalScore) ==
    LET sortedResults == SortByContribution(<<>>, results)
        Keep(r) == RGt(Contribution(r), Num(0)) /\ r.reasoning # <<>>
        kept == SelectSeq(sortedResults, Keep)
        top == SubSeq(kept, 1, IF Len(kept) < 3 THEN Len(kept) ELSE 3)
        topFactors == [k \in DOMAIN top |-> <<top[k].name>> \o top[k].reasoning]
        decision == IF RGe(finalScore, Num(7)) THEN "Strong indication to respond"
                    ELSE IF RGe(finalScore, Num(4)) THEN "Moderate indication to respond"
                    ELSE "Low indication to respond"
    IN  IF Len(topFactors) > 0
        THEN Reasoning(decision, topFactors, Undefined)
        ELSE Reasoning(decision, <<>>, finalScore)

\* the catch block around llmMetaJudge.analyze(messages)
JudgeFallback(fastScore) ==
    Entry(LLMMetaJudge, Result(fastScore, <<"LLM Meta-Judge failed">>, Dec1(3), Undefined))

\* llmResult after `try { llmResult = await llmMetaJudge.analyze(messages) ... } catch`
JudgeEntry(out, fastScore) ==
    IF out.threw THEN JudgeFallback(fastScore) ELSE Entry(LLMMetaJudge, out.res)

\* a return statement that caps the score at 10 but sets no floor
CapOnly(finalScore) == MathMin(Num(10), finalScore)

\* Math.max(1, Math.min(10, finalScore))
ClampScore(finalScore) == MathMax(Num(1), MathMin(Num(10), finalScore))

NoEntry == [Pending EXCEPT !.name = "none"]

\* details.finalScore reporting the returned, clamped score
OutcomeOfReturned(score, reasoning, results, llmUsed, fast, final) ==
    [returned |-> TRUE, score |-> score, reasoning |-> reasoning,
     heuristicResults |-> results, llmUsed |-> llmUsed, fastScore |-> fast, finalScore |-> score]

\* what analyzeRelevance returns
Outcome(score, reasoning, results, llmUsed, fast, final) ==
    [returned |-> TRUE, score |-> score, reasoning |-> reasoning,
     heuristicResults |-> results, llmUsed |-> llmUsed, fastScore |-> fast, finalScore |-> final]

NoOutcome ==
    [returned |-> FALSE, score |-> NaN, reasoning |-> PlainReasoning(""), heuristicResults |-> <<>>,
     llmUsed |-> FALSE, fastScore |-> NaN, finalScore |-> NaN]

\* `return { score: 0, reasoning: "No messages to analyze" }`
EmptyOutcome ==
    [NoOutcome EXCEPT !.returned = TRUE, !.score = Num(0),
                      !.reasoning = PlainReasoning("No messages to analyze")]

\* the outer catch: `return { score: 5.0, reasoning: "Analysis failed: ..." }`
FailedOutcome ==
    [NoOutcome EXCEPT !.returned = TRUE, !.score = Num(5), !.reasoning = PlainReasoning("Analysis failed")]

(***************************************************************************)
(* The conversations that are explored.                                    *)
(*                                                                         *)
(*   len       number of messages                                          *)
(*   shape     "ok", or how the array is malformed:                        *)
(*             assistant_last  the last message is not the user's          *)
(*             null_last       the last element is no object               *)
(*             bad_last        the last message has no text content        *)
(*             null_prev       the element before the last is no object    *)
(*             bad_prev_ai     the assistant message before the last has   *)
(*                             no text content                             *)
(*             bad_old_ai      the latest assistant message, at least four *)
(*                             from the end, has no text content           *)
(*             bad_prev_user   the user message before the last has no     *)
(*                             text content                                *)
(*   prevRole  role of the message before the last                         *)
(*   aiCount   number of assistant messages                                *)
(*   name, syn, flow, sem   what the heuristics' patterns find in the text *)
(***************************************************************************)
Conv(len, shape, prevRole, aiCount, name, syn, flow, sem) ==
    [len |-> len, shape |-> shape, prevRole |-> prevRole, aiCount |-> aiCount,
     name |-> name, syn |-> syn, flow |-> flow, sem |-> sem]

Syn(top, many, size, third) == [top |-> top, many |-> many, size |-> size, third |-> third]
Flow(follow, engagement, overlap) == [follow |-> follow, engagement |-> engagement, overlap |-> overlap]
Sem(sim, topical, ref) == [sim |-> sim, topical |-> topical, ref |-> ref]

\* the facts of a text no heuristic reads
NoName == "none"
NoSyn == Syn(0, FALSE, "mid", FALSE)
NoFlow == Flow("direct", "none", "none")
NoSem == Sem("low", 0, 0)

NameCases == {"third_person", "direct", "unclear", "alias", "pattern", "none"}

SynCases ==
    { NoSyn, Syn(0, FALSE, "mid", TRUE), Syn(5, FALSE, "short", FALSE),
      Syn(6, FALSE, "mid", FALSE), Syn(9, TRUE, "long", FALSE) }

FollowCases(prevRole) == IF prevRole = "assistant" THEN {"strong", "general"} ELSE {"direct"}

FlowCases(len, prevRole) ==
    { Flow(f, e, o) : f \in FollowCases(prevRole), e \in {"none", "high"},
                      o \in IF len >= 3 /\ prevRole = "user" THEN {"none", "first"} ELSE {"none"} }

SemCases(len, aiCount) ==
    IF aiCount = 0 \/ len <= 2 THEN {NoSem}
    ELSE {NoSem, Sem("high", 0, 0), Sem("low", 0, 8)}

\* (prevRole, aiCount) of the conversations of a length: alternating turns,
\* or the user speaking twice in a row with no or with some assistant turns
Structures(len) ==
    IF len = 1 THEN {<<"none", 0>>}
    ELSE {<<"assistant", len \div 2>>, <<"user", 0>>}
         \cup (IF len >= 3 THEN {<<"user", (len - 1) \div 2>>} ELSE {})

OkConversations ==
    UNION { UNION { { Conv(len, "ok", st[1], st[2], nm, sy, fl, sm) :
                        nm \in NameCases, sy \in SynCases,
                        fl \in FlowCases(len, st[1]), sm \in SemCases(len, st[2]) } :
                    st \in Structures(len) } :
            len \in 1..MaxConvLen }


\* malformed arrays: what the heuristics that still run find in the text
FewNames == {"direct", "none"}
FewSyn == {NoSyn, Syn(9, TRUE, "long", FALSE)}

MalformedConversations ==
    UNION { { Conv(len, "assistant_last", IF len = 1 THEN "none" ELSE "user", 1,
                   NoName, NoSyn, NoFlow, NoSem),
              Conv(len, "null_last", IF len = 1 THEN "none" ELSE "user", 0,
                   NoName, NoSyn, NoFlow, NoSem) }
            \cup { Conv(len, "bad_last", st[1], st[2], NoName, NoSyn, NoFlow, NoSem) :
                     st \in Structures(len) }
            \cup { Conv(len, "null_prev", "null", 0, nm, sy, NoFlow, NoSem) :
                     nm \in (IF len >= 2 THEN FewNames ELSE {}), sy \in FewSyn }
            \cup { Conv(len, "bad_prev_ai", "assistant", len \div 2, nm, sy, NoFlow, NoSem) :
                     nm \in (IF len >= 2 THEN FewNames ELSE {}), sy \in FewSyn }
            \cup { Conv(len, "bad_old_ai", "user", 1, nm, sy, fl, NoSem) :
                     nm \in (IF len >= 4 THEN FewNames ELSE {}), sy \in FewSyn,
                     fl \in FlowCases(len, "user") }
            \cup { Conv(len, "bad_prev_user", "user", ai, nm, sy, Flow("direct", "none", ov), NoSem) :
                     nm \in (IF len >= 3 THEN FewNames ELSE {}), sy \in FewSyn,
                     ai \in {0, (len - 1) \div 2}, ov \in {"none", "first", "second"} }
          : len \in 1..MaxConvLen }

\* analyzeRelevance is also handed the empty array
EmptyConversation == Conv(0, "ok", "none", 0, NoName, NoSyn, NoFlow, NoSem)

Conversations == OkConversations \cup MalformedConversations \cup {EmptyConversation}

\* the replies of the chat-completion service that are explored
ModelReplies ==
    { Reply("error", Undefined, Undefined),
      Reply("json", Num(9), Dec1(9)),
      Reply("json", Num(2), Num(1)),
      Reply("json", Num(0), Num(0)),
      Reply("json", Num(-3), Dec2(5)),
      Reply("json", Num(15), Num(2)),
      Reply("json", NaN, NaN),
      Reply("text", Undefined, Undefined),
      Reply("text", Num(8), Dec1(2)),
      Reply("text", Num(0), Num(0)) }

(***************************************************************************)
(* The text of a message, and the heuristics' regular expressions on it.   *)
(*                                                                         *)
(* A content, lower-cased, is the sequence of its tokens: each run of word *)
(* characters is a token, each white-space character is the token " ",    *)
(* and every other character is a token of its own; `length` is its number *)
(* of characters.  A regular expression is a sequence of elements, each    *)
(* matching one token of a set or one or more of them; `\b` holds at both  *)
(* ends of a word token.  An expression that starts without `\b` is taken  *)
(* to start at a token (no word of the texts below ends in the name).      *)
(***************************************************************************)
Content(tokens, length) == [tokens |-> tokens, length |-> length]

One(set) == [kind |-> "one", set |-> set]
Plus(set) == [kind |-> "plus", set |-> set]
\* `\w+`: one token that is a word
Word == [kind |-> "word", set |-> {}]

\* `\s+`, a literal space, `[,\s]+`, and the tokens that are no word
Sp == Plus({" "})
Space == One({" "})
CommaSp == Plus({",", " "})
NonWord == {" ", ",", "?", ".", "'", ":", "!"}

\* the expression pat matches the tokens from position i on; up to the end
\* of the text when toEnd (`$`)
RECURSIVE MatchAt(_, _, _, _)
MatchAt(tokens, i, pat, toEnd) ==
    IF pat = <<>> THEN (~toEnd) \/ i = Len(tokens) + 1
    ELSE LET e == Head(pat)
             here == /\ i <= Len(tokens)
                     /\ IF e.kind = "word" THEN tokens[i] \notin NonWord
                        ELSE tokens[i] \in e.set
         IN  CASE e.kind \in {"one", "word"} ->
                    here /\ MatchAt(tokens, i + 1, Tail(pat), toEnd)
               [] e.kind = "plus" ->
                    here /\ (\/ MatchAt(tokens, i + 1, Tail(pat), toEnd)
                             \/ MatchAt(tokens, i + 1, pat, toEnd))

\* pattern.test(content) for an expression without anchor, with `^`, with `$`
Search(content, pat) ==
    \E i \in 1..Len(content.tokens) : MatchAt(content.tokens, i, pat, FALSE)
AtStart(content, pat) == MatchAt(content.tokens, 1, pat, FALSE)
AtEnd(content, pat) ==
    \E i \in 1..Len(content.tokens) : MatchAt(content.tokens, i, pat, TRUE)

\* an expression of a pattern list: its alternatives, its anchor, its score
Pattern(anchor, alternatives, score) ==
    [anchor |-> anchor, alternatives |-> alternatives, score |-> score]

Test(p, content) ==
    \E pat \in p.alternatives :
        CASE p.anchor = "start" -> AtStart(content, pat)
          [] p.anchor = "end" -> AtEnd(content, pat)
          [] OTHER -> Search(content, pat)

\* this.aiName.toLowerCase(), and the words that contain one of this.aliases
\* ('AI', 'Assistant', 'Bot') lower-cased: content.includes(alias)
aiName == "mirai"
aliasWords == {"ai", "assistant", "bot", "mirai"}

\* a third-person test that also takes "asked <name>" for talk about the AI
isThirdPersonReferenceOrAsked(content) ==
    \/ Search(content, <<One({aiName}), One({"'"}), One({"s"}), Sp, Word>>)
    \/ Search(content, <<One({aiName}), Sp,
                         One({"is", "was", "has", "had", "been", "seems", "looks", "sounds",
                              "helps", "helped", "works", "worked"})>>)
    \/ AtStart(content, <<One({"yeah", "yes", "well", "so"}), CommaSp, One({aiName})>>)
    \/ Search(content, <<One({"about", "with", "using", "that", "this", "asked"}), Sp,
                         One({aiName})>>)

\* NameMentionHeuristic.isThirdPersonReference(content)
isThirdPersonReferenceIn(content) ==
    \/ Search(content, <<One({aiName}), One({"'"}), One({"s"}), Sp, Word>>)
    \/ Search(content, <<One({aiName}), Sp,
                         One({"is", "was", "has", "had", "been", "seems", "looks", "sounds",
                              "helps", "helped", "works", "worked"})>>)
    \/ AtStart(content, <<One({"yeah", "yes", "well", "so"}), CommaSp, One({aiName})>>)
    \/ Search(content, <<One({"about", "with", "using", "that", "this"}), Sp, One({aiName})>>)

\* NameMentionHeuristic.isDirectAddress(content)
isDirectAddressIn(content) ==
    \/ AtStart(content, <<One({"hey", "hi", "hello", "yo"}), CommaSp, One({aiName})>>)
    \/ Search(content, <<One({aiName}), One({",", ":"})>>)
    \/ Search(content, <<One({aiName}), Sp, One({",", ":"})>>)
    \/ Search(content, <<One({aiName}), CommaSp,
                         One({"can", "could", "would", "will", "please", "help"})>>)
    \/ Search(content, <<One({aiName}), CommaSp,
                         One({"what", "how", "why", "when", "where", "who"})>>)
    \/ Search(content, <<One({"ask", "tell"}), Sp, One({aiName})>>)
    \/ Search(content, <<One({aiName}), CommaSp,
                         One({"tell", "show", "give", "find", "get", "explain", "describe"})>>)

\* NameMentionHeuristic.hasAddressPatterns(content)
hasAddressPatternsIn(content) ==
    \/ AtStart(content, <<One({"hey", "hello", "hi"}), One({" ", ","})>>)
    \/ Search(content, <<One({"hey"}), Sp, One({"there", "you"})>>)
    \/ Search(content, <<One({"can", "would", "could", "will"}), Sp, One({"you"})>>)
    \/ Search(content, <<One({"please"}), Sp>>)

\* which branch of NameMentionHeuristic.analyze the content takes
NameCase(content) ==
    IF isThirdPersonReferenceIn(content) THEN "third_person"
    ELSE IF \E k \in DOMAIN content.tokens : content.tokens[k] = aiName
    THEN IF isDirectAddressIn(content) THEN "direct" ELSE "unclear"
    ELSE IF \E k \in DOMAIN content.tokens : content.tokens[k] \in aliasWords
    THEN IF isDirectAddressIn(content) THEN "alias_direct" ELSE "alias"
    ELSE IF hasAddressPatternsIn(content) THEN "pattern"
    ELSE "none"

\* PronounSyntaxHeuristic.analyze: allPatterns, in the order of the list
allPatterns ==
    << Pattern("any", {<<One({"you"}), Sp,
                         One({"are", "were", "can", "could", "will", "would", "should",
                              "might", "must", "need", "have", "had"})>>}, 9),
       Pattern("any", {<<One({"can"}), Sp, One({"you"})>>}, 9),
       Pattern("any", {<<One({"would"}), Sp, One({"you"})>>}, 9),
       Pattern("any", {<<One({"could"}), Sp, One({"you"})>>}, 9),
       Pattern("any", {<<One({"will"}), Sp, One({"you"})>>}, 8),
       Pattern("any", {<<One({"do"}), Sp, One({"you"})>>}, 8),
       Pattern("any", {<<One({"did"}), Sp, One({"you"})>>}, 8),
       Pattern("any", {<<One({"have"}), Sp, One({"you"})>>}, 8),
       Pattern("start", {<<One({"what"}), Sp,
                           One({"is", "are", "do", "did", "would", "should"})>>}, 7),
       Pattern("start", {<<One({"how"}), Sp,
                           One({"do", "did", "can", "would", "should", "is", "are"})>>}, 7),
       Pattern("start", {<<One({"where"}), Sp, One({"is", "are", "do", "did", "can"})>>}, 7),
       Pattern("start", {<<One({"when"}), Sp,
                           One({"is", "are", "do", "did", "will", "would"})>>}, 7),
       Pattern("start", {<<One({"why"}), Sp,
                           One({"is", "are", "do", "did", "would", "should"})>>}, 7),
       Pattern("end", {<<One({"?"})>>}, 5),
       Pattern("start", {<<One({"tell", "show", "give", "find", "get", "help", "explain",
                                "describe"})>>,
                         <<One({"please"}), Sp,
                           One({"tell", "show", "give", "find", "get", "help", "explain",
                                "describe"})>>}, 8),
       Pattern("start", {<<One({"check", "look", "search", "calculate", "create", "make"})>>,
                         <<One({"please"}), Sp,
                           One({"check", "look", "search", "calculate", "create", "make"})>>}, 8),
       Pattern("start", {<<One({"please"}), Sp>>}, 6),
       Pattern("any", {<<One({"thank", "thanks"})>>}, 6),
       Pattern("any", {<<One({"sorry", "apologies"})>>}, 5),
       Pattern("any", {<<One({"okay", "ok", "alright"})>>}, 4),
       Pattern("start", {<<One({"maybe", "perhaps", "possibly", "probably"})>>}, 6),
       Pattern("start", {<<One({"well", "hmm", "uh", "um"})>>}, 5),
       Pattern("any", {<<One({"but"}), Sp, One({"i"}), Sp, One({"don", "can", "won"}),
                         One({"'"}), One({"t"})>>}, 6),
       Pattern("any", {<<One({"i"}), Sp, One({"think", "believe", "guess", "suppose"})>>}, 5),
       Pattern("any", {<<One({"don"}), One({"'"}), One({"t"}), Sp, One({"know"})>>,
                       <<One({"not"}), Sp, One({"sure"})>>}, 6),
       Pattern("any", {<<One({"i"}), Sp, One({"would", "could", "might", "should"})>>}, 5) >>

\* PronounSyntaxHeuristic.hasThirdPersonIndicators(content)
hasThirdPersonIndicators(content) ==
    \/ Search(content, <<One({"he", "she", "it"}), Sp,
                         One({"is", "was", "will", "would", "can", "could", "should",
                              "has", "had"})>>)
    \/ Search(content, <<One({"they"}), Sp,
                         One({"are", "were", "will", "would", "can", "could", "should",
                              "have", "had"})>>)
    \/ Search(content, <<One({"his", "her", "their", "its"}), Sp>>)
    \/ Search(content, <<One({"about"}), Sp, One({"him", "her", "them", "it"})>>)

\* what PronounSyntaxHeuristic.analyze finds: the highest score of the
\* matched patterns, whether more than one matched, content.length against
\* the 20 and 10 of calculateConfidence, and the third-person indicators
SynCase(content) ==
    LET matched == {k \in DOMAIN allPatterns : Test(allPatterns[k], content)}
        highestScore == IF matched = {} THEN 0
                        ELSE CHOOSE m \in {allPatterns[k].score : k \in matched} :
                                \A k \in matched : allPatterns[k].score <= m
    IN  Syn(highestScore, Cardinality(matched) > 1,
            IF content.length > 20 THEN "long"
            ELSE IF content.length < 10 THEN "short" ELSE "mid",
            hasThirdPersonIndicators(content))

\* which return ConversationalFlowAnalyzer.analyzeFollowUp takes when the
\* previous message is the assistant's
FollowCase(userContent, aiContent) ==
    IF \/ \E k \in DOMAIN aiContent.tokens : aiContent.tokens[k] \in {"?", "what", "how", "which", "any"}
       \/ Search(aiContent, <<One({"do", "would", "can"}), Space, One({"you"})>>)
    THEN IF \/ AtStart(userContent, <<One({"yes", "yeah", "yep", "no", "nope", "maybe",
                                           "perhaps"})>>)
            \/ AtStart(userContent, <<One({"i"}), Space,
                                      One({"think", "believe", "guess", "suppose"})>>)
            \/ AtStart(userContent, <<One({"well", "hmm", "uh", "um"})>>)
            \/ Search(userContent, <<One({"but", "however", "although", "though"})>>)
            \/ Search(userContent, <<One({"don"}), One({"'"}), One({"t"}), Space, One({"know"})>>)
            \/ Search(userContent, <<One({"not"}), Space, One({"sure"})>>)
         THEN "strong" ELSE "answer"
    ELSE IF \/ AtStart(userContent, <<One({"thanks", "ok", "okay", "alright", "but", "however",
                                           "although", "though", "and", "also", "additionally",
                                           "furthermore", "wait", "actually"})>>)
            \/ AtStart(userContent, <<One({"thank"}), Space, One({"you"})>>)
            \/ AtStart(userContent, <<One({"hold"}), Space, One({"on"})>>)
            \/ Search(userContent, <<One({"that"}), One({"'"}), One({"s"})>>)
            \/ Search(userContent, <<One({"that"}), Space, One({"is", "was"})>>)
            \/ Search(userContent, <<One({"this"})>>)
            \/ Search(userContent, <<One({"your"}), Sp,
                                     One({"answer", "response", "suggestion"})>>)
         THEN "general" ELSE "direct"

\* which return ConversationalFlowAnalyzer.analyzeEngagement takes
EngagementCase(content) ==
    IF \/ Search(content, <<One({"interesting", "fascinating", "amazing", "explain",
                                 "elaborate", "hypothetically", "also", "btw"})>>)
       \/ Search(content, <<One({"tell"}), Space, One({"me"}), Space, One({"more"})>>)
       \/ Search(content, <<One({"i"}), One({"'"}), One({"d"}), Space, One({"like"}), Space, One({"to"})>>)
       \/ Search(content, <<One({"i"}), Space, One({"would"}), Space, One({"like"}), Space, One({"to"})>>)
       \/ Search(content, <<One({"what"}), Space, One({"if"})>>)
       \/ Search(content, <<One({"by"}), Space, One({"the"}), Space, One({"way"})>>)
    THEN "high"
    ELSE IF \/ Search(content, <<One({"really", "seriously"}), One({"?"})>>)
            \/ Search(content, <<One({"is"}), Space, One({"that"}), Space, One({"so"}), One({"?"})>>)
            \/ Search(content, <<One({"huh", "hmm", "interesting"})>>)
            \/ Search(content, <<One({"i"}), Space, One({"think", "believe"})>>)
            \/ Search(content, <<One({"in"}), Space, One({"my"}), Space, One({"opinion"})>>)
    THEN "medium"
    ELSE "none"

\* a message, and the conversation of one user message, or of an assistant
\* message and the user's answer, as the heuristics see it; neither has the
\* three messages the topic coherence and the semantic comparison need
Message(role, content) == [role |-> role, content |-> content]

FactsOf(messages) ==
    LET n == Len(messages)
        last == messages[n].content
        prevRole == IF n = 1 THEN "none" ELSE messages[n - 1].role
        ai == Cardinality({k \in 1..n : messages[k].role = "assistant"})
    IN  Conv(n, "ok", prevRole, ai, NameCase(last), SynCase(last),
             Flow(IF prevRole = "assistant" THEN FollowCase(last, messages[n - 1].content)
                  ELSE "direct",
                  EngagementCase(last), "none"),
             NoSem)

\* testExamples: 'Direct AI Mention', 'Conversational Follow-up' and
\* 'Indirect Reference'
DirectAIMention ==
    << Message("user", Content(
         << "hey", " ", "mirai", ",", " ", "what", "'", "s", " ", "the", " ", "weather", " ",
            "like", " ", "today", "?" >>, 41)) >>

ConversationalFollowUp ==
    << Message("assistant", Content(
         << "you", " ", "mentioned", " ", "wanting", " ", "to", " ", "try", " ", "cooking", " ",
            "japanese", " ", "food", ".", " ", "any", " ", "dish", " ", "in", " ", "mind", "?" >>,
         69)),
       Message("user", Content(
         << "maybe", " ", "sushi", "?", " ", "but", " ", "i", " ", "don", "'", "t", " ", "know",
            " ", "where", " ", "to", " ", "start", "." >>, 45)) >>

IndirectReference ==
    << Message("assistant", Content(
         << "reminder", " ", "set", " ", "for", " ", "your", " ", "meeting", " ", "at", " ", "2",
            " ", "pm", "." >>, 38)),
       Message("user", Content(
         << "ugh", ",", " ", "i", " ", "should", "'", "ve", " ", "asked", " ", "mirai", " ", "to",
            " ", "remind", " ", "me", " ", "about", " ", "that", " ", "meeting", ".", ".", "." >>,
         63)) >>

TestExamples == {DirectAIMention, ConversationalFollowUp, IndirectReference}

(***************************************************************************)
(* State                                                                   *)
(***************************************************************************)
VARIABLES
    conv,                \* messages, the argument of analyzeRelevance
    enableLLMMetaJudge,  \* this.enableLLMMetaJudge
    pc,                  \* where analyzeRelevance stands
    status,              \* each fast heuristic's promise: idle, running, settled
    fastResults,         \* the slots of the Promise.all result array
    settled,             \* the fast heuristics in the order they completed
    trackOrder,          \* whether `settled` is recorded (it is not program state)
    fastScore,
    shouldRunLLM,
    reply,               \* the reply of the model call, once it has come
    llmResult,
    outcome,             \* the value analyzeRelevance returns
    analyzeCalls,        \* how often each heuristic's analyze() was invoked
    modelCalls,          \* how many chat-completion calls were issued
    other,               \* a second request on the same orchestrator instance
    response,            \* what verifyRelevance has sent for the request
    client,              \* the page that posted the request (Home.handleSubmit)
    probe                \* the arguments and value of a function applied on its own

vars == << conv, enableLLMMetaJudge, pc, status, fastResults, settled, trackOrder, fastScore,
           shouldRunLLM, reply, llmResult, outcome, analyzeCalls, modelCalls,
           other, response, client, probe >>

\* what a step of the request leaves alone: the second request, the HTTP
\* exchange around it and the functions applied on their own
outside == << other, response, client, probe >>

\* the state at the call of analyzeRelevance(messages)
Entered ==
    /\ enableLLMMetaJudge \in BOOLEAN
    /\ pc = "start"
    /\ status = [i \in FastIdx |-> "idle"]
    /\ fastResults = [i \in FastIdx |-> Pending]
    /\ settled = <<>>
    /\ fastScore = NaN
    /\ shouldRunLLM = FALSE
    /\ reply = NoReply
    /\ llmResult = NoEntry
    /\ outcome = NoOutcome
    /\ analyzeCalls = [i \in DOMAIN heuristics |-> 0]
    /\ modelCalls = 0

\* the locals of a call of analyzeRelevance(messages) that has just been made
Request(messages) ==
    [conv |-> messages, pc |-> "start", fastResults |-> <<>>, fastScore |-> NaN,
     reply |-> NoReply, llmResult |-> NoEntry, outcome |-> NoOutcome]

\* one request only: no second request, no HTTP exchange around it, no
\* function applied on its own
NoRequest == [Request(EmptyConversation) EXCEPT !.pc = "absent"]
NoResponse == [status |-> 0, relevanceScore |-> Undefined, action |-> ""]
NoClient == [state |-> "absent", score |-> Undefined, label |-> "", expiredAt |-> ""]
NoProbe == [fn |-> "none"]

Single ==
    /\ other = NoRequest
    /\ response = NoResponse
    /\ client = NoClient
    /\ probe = NoProbe

Init ==
    /\ conv \in Conversations
    /\ trackOrder = FALSE
    /\ Entered
    /\ Single

\* a result array filled in the order of completion
CompletionOrder(slots, order) ==
    IF Len(order) = Cardinality(DOMAIN slots)
    THEN [k \in 1..Len(order) |-> slots[order[k]]]
    ELSE [i \in 1..Cardinality(DOMAIN slots) |-> slots[i]]

\* the Promise.all result array: slot i holds fast heuristic i's entry,
\* whatever the order of completion
ResultsArray(slots, order) == [i \in 1..Cardinality(DOMAIN slots) |-> slots[i]]

AnyRejected(slots) == \E i \in DOMAIN slots : slots[i] = Rejected

\* a join that never resolves
NeverJoined(st) == FALSE

\* a join that resolves with the first promise that settles
AnySettled(st) == \E i \in DOMAIN st : st[i] = "settled"

\* Promise.all resolves once every promise has settled
FastJoined(st) == \A i \in DOMAIN st : st[i] = "settled"

\* analyzeRelevance, up to `await Promise.all(...)`: the empty-array return,
\* or the four analyze() calls started
Start ==
    /\ pc = "start"
    /\ IF conv.len = 0
       THEN /\ outcome' = EmptyOutcome
            /\ pc' = "done"
            /\ UNCHANGED << status, analyzeCalls >>
       ELSE /\ status' = [i \in FastIdx |-> "running"]
            /\ analyzeCalls' = [i \in DOMAIN heuristics |->
                                  IF i \in FastIdx THEN analyzeCalls[i] + 1 ELSE analyzeCalls[i]]
            /\ pc' = "fan_out"
            /\ UNCHANGED outcome
    /\ UNCHANGED << outside, conv, enableLLMMetaJudge, trackOrder, fastResults, settled, fastScore,
                    shouldRunLLM, reply, llmResult, modelCalls >>

\* fast heuristic i completes: its entry, or the fallback when it threw
Settle(i) ==
    /\ pc = "fan_out"
    /\ status[i] = "running"
    /\ status' = [status EXCEPT ![i] = "settled"]
    /\ fastResults' = [fastResults EXCEPT ![i] = FastOutcome(i, conv)]
    /\ settled' = IF trackOrder THEN Append(settled, i) ELSE settled
    /\ UNCHANGED << outside, conv, enableLLMMetaJudge, trackOrder, pc, fastScore, shouldRunLLM, reply,
                    llmResult, outcome, analyzeCalls, modelCalls >>

\* `await Promise.all(...)` ends: with the result array, and then
\* fastScore = calculateWeightedScore(fastResults, messages); or, had a promise
\* rejected, in the outer catch
FastFuse ==
    /\ pc = "fan_out"
    /\ FastJoined(status) \/ AnyRejected(fastResults)
    /\ IF AnyRejected(fastResults)
       THEN /\ outcome' = FailedOutcome
            /\ pc' = "done"
            /\ UNCHANGED << fastResults, fastScore >>
       ELSE /\ fastResults' = ResultsArray(fastResults, settled)
            /\ fastScore' = calculateWeightedScore(ResultsArray(fastResults, settled))
            /\ pc' = "judge_decision"
            /\ UNCHANGED outcome
    /\ UNCHANGED << outside, conv, enableLLMMetaJudge, trackOrder, status, settled, shouldRunLLM,
                    reply, llmResult, analyzeCalls, modelCalls >>

\* shouldRunLLM, and `if (shouldRunLLM && this.enableLLMMetaJudge && llmMetaJudge)`
JudgeDecision ==
    /\ pc = "judge_decision"
    /\ shouldRunLLM' = shouldRunLLMMetaJudge(fastResults, fastScore)
    /\ pc' = IF shouldRunLLMMetaJudge(fastResults, fastScore) /\ enableLLMMetaJudge
             THEN "judge_invoke" ELSE "final_fuse"
    /\ UNCHANGED << outside, conv, enableLLMMetaJudge, trackOrder, status, fastResults, settled, fastScore,
                    reply, llmResult, outcome, analyzeCalls, modelCalls >>

\* a judge that is invoked again when its result is the failure result
RetryOnFailure(entry) == IF entry.confidence = Dec1(3) THEN "judge_invoke" ELSE "final_fuse"

\* where analyzeRelevance continues once llmResult is set
AfterJudge(entry) == "final_fuse"

\* llmMetaJudge.analyze(messages) is called: it runs to its model call, or
\* ends before one is issued
JudgeInvoke ==
    /\ pc = "judge_invoke"
    /\ analyzeCalls' = [analyzeCalls EXCEPT ![JudgeIdx] = @ + 1]
    /\ IF IssuesModelCall(conv)
       THEN /\ modelCalls' = modelCalls + 1
            /\ pc' = "judge_wait"
            /\ UNCHANGED llmResult
       ELSE /\ llmResult' = JudgeEntry(LLMMetaJudgeAnalyze(conv, NoReply), fastScore)
            /\ pc' = AfterJudge(JudgeEntry(LLMMetaJudgeAnalyze(conv, NoReply), fastScore))
            /\ UNCHANGED modelCalls
    /\ UNCHANGED << outside, conv, enableLLMMetaJudge, trackOrder, status, fastResults, settled, fastScore,
                    shouldRunLLM, reply, outcome >>

\* the model call ends with reply r; analyze() parses it and returns
JudgeReturn(r) ==
    /\ pc = "judge_wait"
    /\ reply' = r
    /\ llmResult' = JudgeEntry(LLMMetaJudgeAnalyze(conv, r), fastScore)
    /\ pc' = AfterJudge(JudgeEntry(LLMMetaJudgeAnalyze(conv, r), fastScore))
    /\ UNCHANGED << outside, conv, enableLLMMetaJudge, trackOrder, status, fastResults, settled, fastScore,
                    shouldRunLLM, outcome, analyzeCalls, modelCalls >>

\* allResults, finalScore, reasoning and the returned object
FinalFuse ==
    /\ pc = "final_fuse"
    /\ LET llmUsed == llmResult # NoEntry
           allResults == IF llmUsed THEN Append(fastResults, llmResult) ELSE fastResults
           finalScore == calculateWeightedScore(allResults)
           reasoning == generateReasoning(allResults, finalScore)
       IN  outcome' = Outcome(ClampScore(finalScore), reasoning, allResults, llmUsed,
                              fastScore, finalScore)
    /\ pc' = "done"
    /\ UNCHANGED << outside, conv, enableLLMMetaJudge, trackOrder, status, fastResults, settled, fastScore,
                    shouldRunLLM, reply, llmResult, analyzeCalls, modelCalls >>

Next ==
    \/ Start
    \/ \E i \in FastIdx : Settle(i)
    \/ FastFuse
    \/ JudgeDecision
    \/ JudgeInvoke
    \/ \E r \in ModelReplies : JudgeReturn(r)
    \/ FinalFuse

Spec == Init /\ [][Next]_vars

\* the requests whose completion order is recorded: the conversations of
\* three messages
OrderConversations ==
    {c \in Conversations : c.len = 3 /\ c.syn \in FewSyn /\ c.sem = NoSem}

InitOrder ==
    /\ conv \in OrderConversations
    /\ trackOrder = TRUE
    /\ Entered
    /\ Single

SpecOrder == InitOrder /\ [][Next]_vars

\* whether analyzeRelevance has a step to take: it has not returned, and in
\* the fan-out a heuristic is still running or the join has resolved
CanStep ==
    /\ pc # "done"
    /\ pc = "fan_out" =>
          \/ \E i \in FastIdx : status[i] = "running"
          \/ FastJoined(status)
          \/ AnyRejected(fastResults)

\* every step of a request is taken in the end: the event loop runs each
\* settled promise's continuation, and the model call resolves or rejects.
\* This is WF_vars(Next), with ENABLED <<Next>>_vars written out as CanStep.
FairSpec == Spec /\ ([]<>(~CanStep) \/ []<><<Next>>_vars)

TypeOK ==
    /\ pc \in {"start", "fan_out", "judge_decision", "judge_invoke", "judge_wait",
               "final_fuse", "done"}
    /\ modelCalls \in Nat

(***************************************************************************)
(* Two requests on the one orchestrator instance of verifier.js.           *)
(*                                                                         *)
(* The second request runs the same analyzeRelevance; it is taken from     *)
(* await to await: up to `await Promise.all`, from the join to the judge's *)
(* model call or to the return, and from the reply to the return.  The     *)
(* instance's fields (enableLLMMetaJudge, the heuristic objects whose      *)
(* calls analyzeCalls counts) are the two requests' common state.          *)
(***************************************************************************)
\* the entries of the fan-out whose analyzers keep a position in their
\* patterns (a global expression tried with test()): a name that matched in
\* an earlier call is not found again
FastStageStateful(messages) ==
    [i \in FastIdx |->
        FastOutcome(i, IF analyzeCalls[i] > 1 THEN [messages EXCEPT !.name = NoName]
                       ELSE messages)]

\* fastHeuristics.map(async (heuristic) => ...), once joined
FastStage(messages) == [i \in FastIdx |-> FastOutcome(i, messages)]

\* allResults, finalScore, reasoning and the returned object
ReturnValue(results, llm, fast) ==
    LET llmUsed == llm # NoEntry
        allResults == IF llmUsed THEN Append(results, llm) ELSE results
        finalScore == calculateWeightedScore(allResults)
    IN  Outcome(ClampScore(finalScore), generateReasoning(allResults, finalScore),
                allResults, llmUsed, fast, finalScore)

\* results kept in fields of the instance: the continuation after the
\* judge's await reads what the request that fused last has left there
FieldsOfInstance(req) == [req EXCEPT !.fastResults = fastResults, !.fastScore = fastScore]

\* `const fastResults`, `const fastScore`, `let llmResult`: the continuation
\* of a request reads the locals of its own call
Locals(req) == req

\* the second request up to `await Promise.all(...)`
OtherStart ==
    /\ other.pc = "start"
    /\ IF other.conv.len = 0
       THEN /\ other' = [other EXCEPT !.outcome = EmptyOutcome, !.pc = "done"]
            /\ UNCHANGED analyzeCalls
       ELSE /\ other' = [other EXCEPT !.pc = "fan_out"]
            /\ analyzeCalls' = [i \in DOMAIN heuristics |->
                                  IF i \in FastIdx THEN analyzeCalls[i] + 1 ELSE analyzeCalls[i]]
    /\ UNCHANGED << conv, enableLLMMetaJudge, pc, status, fastResults, settled, trackOrder,
                    fastScore, shouldRunLLM, reply, llmResult, outcome, modelCalls,
                    response, client, probe >>

\* the second request from the join to its next await or to its return
OtherJoin ==
    /\ other.pc = "fan_out"
    /\ \E results \in {FastStage(other.conv)} :
       \E fast \in {calculateWeightedScore(results)} :
       \E run \in {shouldRunLLMMetaJudge(results, fast) /\ enableLLMMetaJudge} :
          LET joined == [other EXCEPT !.fastResults = results, !.fastScore = fast]
          IN  IF run /\ IssuesModelCall(other.conv)
              THEN other' = [joined EXCEPT !.pc = "judge_wait"]
              ELSE \E llm \in {IF run
                                THEN JudgeEntry(LLMMetaJudgeAnalyze(other.conv, NoReply), fast)
                                ELSE NoEntry} :
                      other' = [joined EXCEPT !.llmResult = llm,
                                              !.outcome = ReturnValue(results, llm, fast),
                                              !.pc = "done"]
    /\ UNCHANGED << conv, enableLLMMetaJudge, pc, status, fastResults, settled, trackOrder,
                    fastScore, shouldRunLLM, reply, llmResult, outcome, analyzeCalls, modelCalls,
                    response, client, probe >>

\* the second request from the reply of its model call to its return
OtherJudgeReturn(r) ==
    /\ other.pc = "judge_wait"
    /\ \E own \in {Locals(other)} :
       \E llm \in {JudgeEntry(LLMMetaJudgeAnalyze(other.conv, r), own.fastScore)} :
          other' = [other EXCEPT !.reply = r, !.llmResult = llm,
                                 !.outcome = ReturnValue(own.fastResults, llm, own.fastScore),
                                 !.pc = "done"]
    /\ UNCHANGED << conv, enableLLMMetaJudge, pc, status, fastResults, settled, trackOrder,
                    fastScore, shouldRunLLM, reply, llmResult, outcome, analyzeCalls, modelCalls,
                    response, client, probe >>

\* the conversations the two requests carry: one message
SharedConversations ==
    {c \in Conversations :
        /\ c.len = 1
        /\ c.name \in {"direct", "third_person", "none"}
        /\ c.syn \in FewSyn
        /\ c.flow.engagement = "none"}

InitShared ==
    /\ conv \in SharedConversations
    /\ trackOrder = FALSE
    /\ Entered
    /\ other \in {Request(c) : c \in SharedConversations}
    /\ response = NoResponse
    /\ client = NoClient
    /\ probe = NoProbe

NextShared ==
    \/ Next
    \/ OtherStart
    \/ OtherJoin
    \/ \E r \in ModelReplies : OtherJudgeReturn(r)

SpecShared == InitShared /\ [][NextShared]_vars

(***************************************************************************)
(* The HTTP exchange: Home.handleSubmit posts the conversation with a      *)
(* deadline of 90 s, the /api/verify route forwards it, verifyRelevance    *)
(* calls analyzeRelevance and answers with the score and the action.       *)
(***************************************************************************)
\* an action whose thresholds are exclusive
actionAbove(score) ==
    IF RGt(score, Num(7)) THEN "respond"
    ELSE IF RGt(score, Num(4)) THEN "maybe_respond"
    ELSE "ignore"

\* verifyRelevance: `if (analysisResult.score >= 7) ... else if (... >= 4) ... else`
action(score) ==
    IF RGe(score, Num(7)) THEN "respond"
    ELSE IF RGe(score, Num(4)) THEN "maybe_respond"
    ELSE "ignore"

\* Home.getScoreLabel
getScoreLabel(score) ==
    IF RGe(score, Num(7)) THEN "Respond"
    ELSE IF RGe(score, Num(4)) THEN "Maybe Respond"
    ELSE "Do Not Respond"

\* a page that takes the response whenever it comes
TakesLate(c) == c.state \in {"loading", "timed_out"}

\* the page's fetch is pending: it has neither resolved nor been aborted
FetchPending(c) == c.state = "loading"

\* verifyRelevance up to `await orchestrator.analyzeRelevance(messages)`
Verify ==
    /\ pc = "received"
    /\ IF conv.len = 0
       THEN /\ response' = [NoResponse EXCEPT !.status = 400]
            /\ pc' = "rejected"
       ELSE /\ pc' = "start"
            /\ UNCHANGED response
    /\ UNCHANGED << conv, enableLLMMetaJudge, trackOrder, status, fastResults, settled, fastScore,
                    shouldRunLLM, reply, llmResult, outcome, analyzeCalls, modelCalls,
                    other, client, probe >>

\* verifyRelevance after the await: the action, and res.json(...)
Respond ==
    /\ pc = "done"
    /\ response.status = 0
    /\ response' = [status |-> 200, relevanceScore |-> outcome.score,
                    action |-> action(outcome.score)]
    /\ UNCHANGED << conv, enableLLMMetaJudge, pc, trackOrder, status, fastResults, settled,
                    fastScore, shouldRunLLM, reply, llmResult, outcome, analyzeCalls, modelCalls,
                    other, client, probe >>

\* the response reaches the page through the forwarding route: the result is
\* set from a 200 with a numeric relevanceScore, an error from anything else
Deliver ==
    /\ FetchPending(client)
    /\ response.status # 0
    /\ client' = IF response.status = 200 /\ IsNumber(response.relevanceScore)
                 THEN [client EXCEPT !.state = "result", !.score = response.relevanceScore,
                                     !.label = getScoreLabel(response.relevanceScore)]
                 ELSE [client EXCEPT !.state = "error"]
    /\ UNCHANGED << conv, enableLLMMetaJudge, pc, trackOrder, status, fastResults, settled,
                    fastScore, shouldRunLLM, reply, llmResult, outcome, analyzeCalls, modelCalls,
                    other, response, probe >>

\* setTimeout(() => controller.abort(), 90000) fires: the page's fetch rejects
\* with AbortError and the page shows the time-out message
Deadline ==
    /\ client.state = "loading"
    /\ client' = [client EXCEPT !.state = "timed_out", !.expiredAt = pc]
    /\ UNCHANGED << conv, enableLLMMetaJudge, pc, trackOrder, status, fastResults, settled,
                    fastScore, shouldRunLLM, reply, llmResult, outcome, analyzeCalls, modelCalls,
                    other, response, probe >>

\* the conversations that are posted
HttpConversations ==
    {c \in Conversations : c.shape = "ok" /\ c.syn = NoSyn /\ c.flow.engagement = "none"}

InitHttp ==
    /\ conv \in HttpConversations
    /\ enableLLMMetaJudge \in BOOLEAN
    /\ trackOrder = FALSE
    /\ pc = "received"
    /\ status = [i \in FastIdx |-> "idle"]
    /\ fastResults = [i \in FastIdx |-> Pending]
    /\ settled = <<>>
    /\ fastScore = NaN
    /\ shouldRunLLM = FALSE
    /\ reply = NoReply
    /\ llmResult = NoEntry
    /\ outcome = NoOutcome
    /\ analyzeCalls = [i \in DOMAIN heuristics |-> 0]
    /\ modelCalls = 0
    /\ other = NoRequest
    /\ response = NoResponse
    /\ client = [NoClient EXCEPT !.state = "loading"]
    /\ probe = NoProbe

NextHttp ==
    \/ Verify
    \/ Next
    \/ Respond
    \/ Deliver
    \/ Deadline

SpecHttp == InitHttp /\ [][NextHttp]_vars

(***************************************************************************)
(* The page's test examples sent through the HTTP exchange                 *)
(***************************************************************************)
ExampleConversations == {FactsOf(messages) : messages \in TestExamples}

InitExamples ==
    /\ conv \in ExampleConversations
    /\ enableLLMMetaJudge \in BOOLEAN
    /\ trackOrder = FALSE
    /\ pc = "received"
    /\ status = [i \in FastIdx |-> "idle"]
    /\ fastResults = [i \in FastIdx |-> Pending]
    /\ settled = <<>>
    /\ fastScore = NaN
    /\ shouldRunLLM = FALSE
    /\ reply = NoReply
    /\ llmResult = NoEntry
    /\ outcome = NoOutcome
    /\ analyzeCalls = [i \in DOMAIN heuristics |-> 0]
    /\ modelCalls = 0
    /\ other = NoRequest
    /\ response = NoResponse
    /\ client = [NoClient EXCEPT !.state = "loading"]
    /\ probe = NoProbe

SpecExamples == InitExamples /\ [][NextHttp]_vars

(***************************************************************************)
(* Functions applied on their own.  No request is in progress; `probe`     *)
(* holds the arguments and, once the function has been applied, its value. *)
(***************************************************************************)
NoCall ==
    /\ conv = EmptyConversation
    /\ enableLLMMetaJudge = FALSE
    /\ trackOrder = FALSE
    /\ pc = "idle"
    /\ status = [i \in FastIdx |-> "idle"]
    /\ fastResults = [i \in FastIdx |-> Pending]
    /\ settled = <<>>
    /\ fastScore = NaN
    /\ shouldRunLLM = FALSE
    /\ reply = NoReply
    /\ llmResult = NoEntry
    /\ outcome = NoOutcome
    /\ analyzeCalls = [i \in DOMAIN heuristics |-> 0]
    /\ modelCalls = 0
    /\ other = NoRequest
    /\ response = NoResponse
    /\ client = NoClient

\* a one-message conversation whose text gives NameMentionHeuristic the case nm
Addressed(nm) == Conv(1, "ok", "none", 0, nm, NoSyn, NoFlow, NoSem)

\* the entry of NameMentionHeuristic for a direct address, and for a
\* third-person reference
DirectEntry == Entry(NameMentionHeuristic, NameMentionAnalyze(Addressed("direct")).res)
ThirdPersonEntry ==
    Entry(NameMentionHeuristic, NameMentionAnalyze(Addressed("third_person")).res)

\* the results the three other fast heuristics are given: scores over the
\* range 0..10, confidences from the fallback's 0.1 to 1, and for the
\* semantic module the lowest and the full dynamic weight
ProbeScores == {Num(k) : k \in {0, 1, 3, 4, 5, 6, 8, 10}}
ProbeConfidences == {Dec1(1), Dec1(5), Num(1)}
ProbeEntries(name, weights) ==
    {Entry(name, Result(sc, <<"given">>, cf, w)) :
        sc \in ProbeScores, cf \in ProbeConfidences, w \in weights}

InitFusion ==
    /\ NoCall
    /\ \E syn \in ProbeEntries(PronounSyntaxHeuristic, {Undefined}),
          flow \in ProbeEntries(ConversationalFlowAnalyzer, {Undefined}),
          sem \in ProbeEntries(SemanticSimilarityModule, {minWeight, baseWeight}) :
          probe = [fn |-> "calculateWeightedScore", applied |-> FALSE,
                   syn |-> syn, flow |-> flow, sem |-> sem,
                   direct |-> NaN, third |-> NaN]

\* calculateWeightedScore on the four fast results, once with the direct
\* address and once with the third-person reference
FuseBoth ==
    /\ probe.fn = "calculateWeightedScore"
    /\ ~probe.applied
    /\ probe' = [probe EXCEPT
                   !.applied = TRUE,
                   !.direct = calculateWeightedScore(
                                  <<DirectEntry, probe.syn, probe.flow, probe.sem>>),
                   !.third = calculateWeightedScore(
                                  <<ThirdPersonEntry, probe.syn, probe.flow, probe.sem>>)]
    /\ UNCHANGED << conv, enableLLMMetaJudge, pc, trackOrder, status, fastResults, settled,
                    fastScore, shouldRunLLM, reply, llmResult, outcome, analyzeCalls, modelCalls,
                    other, response, client >>

SpecFusion == InitFusion /\ [][FuseBoth]_vars

\* the results the other analyzers can give beside a name result of 0: the
\* syntax heuristic's pattern scores and its 0, 1 and 3, the flow analyzer's
\* sub-scores and its neutral 4, the semantic module's clamped range, the
\* judge's clamped range, and 5 for an analyzer that threw
SyntaxScores == {Num(allPatterns[i].score) : i \in DOMAIN allPatterns} \cup {Num(0), Num(1), Num(3)}
FlowScores == {Num(k) : k \in {0, 3, 4, 5, 6, 7, 8, 9}}
SemanticScores == {Num(0), Num(6), Num(10)}
JudgeScores == {Num(1), Num(10)}
NoNameEntry == Entry(NameMentionHeuristic, NameMentionAnalyze(Addressed("none")).res)
GivenEntries(name, scores, confidences, weights) ==
    {Entry(name, Result(sc, <<"given">>, cf, w)) : sc \in scores, cf \in confidences, w \in weights}

InitNoName ==
    /\ NoCall
    /\ \E syn \in GivenEntries(PronounSyntaxHeuristic, SyntaxScores \cup {Num(5)},
                                ProbeConfidences, {Undefined}),
          flow \in GivenEntries(ConversationalFlowAnalyzer, FlowScores, ProbeConfidences,
                                {Undefined}),
          sem \in GivenEntries(SemanticSimilarityModule, SemanticScores, {Dec1(1), Num(1)},
                               {minWeight, baseWeight}),
          judge \in {NoEntry} \cup GivenEntries(LLMMetaJudge, JudgeScores, {Dec1(1), Num(1)},
                                                {Undefined}) :
          probe = [fn |-> "calculateWeightedScore without a name", applied |-> FALSE,
                   syn |-> syn, flow |-> flow, sem |-> sem, judge |-> judge,
                   fastScore |-> NaN, finalScore |-> NaN]

\* analyzeRelevance's two fusions beside a name result of 0: the fast score of
\* the four fast results, and the final score of all results when the judge
\* has answered
FuseNoName ==
    /\ probe.fn = "calculateWeightedScore without a name"
    /\ ~probe.applied
    /\ \E four \in {<<NoNameEntry, probe.syn, probe.flow, probe.sem>>} :
       \E fast \in {calculateWeightedScore(four)} :
          probe' = [probe EXCEPT
                      !.applied = TRUE,
                      !.fastScore = fast,
                      !.finalScore = IF probe.judge = NoEntry THEN fast
                                     ELSE calculateWeightedScore(four \o <<probe.judge>>)]
    /\ UNCHANGED << conv, enableLLMMetaJudge, pc, trackOrder, status, fastResults, settled,
                    fastScore, shouldRunLLM, reply, llmResult, outcome, analyzeCalls, modelCalls,
                    other, response, client >>

SpecNoName == InitNoName /\ [][FuseNoName]_vars

\* conversations ending with a user message, by what the flow analyzer reads:
\* the length, the role of the message before the last, the number of
\* assistant messages among the recent ones, and the content facts
PreviousRoles(len) == IF len = 1 THEN {"none"} ELSE {"assistant", "user", "system"}
AiCounts(len, prevRole) ==
    LET recent == IF len < maxHistoryLength THEN len ELSE maxHistoryLength
    IN  IF prevRole = "assistant" THEN 1..(recent - 1)
        ELSE IF len = 1 THEN {0} ELSE 0..(recent - 2)
FlowFacts(len, prevRole) ==
    { Flow(f, e, o) :
        f \in IF prevRole = "assistant" THEN {"strong", "answer", "general", "direct"}
              ELSE {"direct"},
        e \in {"none", "medium", "high"},
        o \in IF len >= 3 THEN {"none", "first", "second"} ELSE {"none"} }
FlowConversations ==
    UNION { UNION { { Conv(len, "ok", pr, ai, NoName, NoSyn, fl, NoSem) :
                        ai \in AiCounts(len, pr), fl \in FlowFacts(len, pr) } :
                    pr \in PreviousRoles(len) } :
            len \in 1..MaxTurns }

InitFlow ==
    /\ NoCall
    /\ \E c \in FlowConversations :
          probe = [fn |-> "ConversationalFlowAnalyzer.analyze", applied |-> FALSE,
                   messages |-> c, flowIndicators |-> <<>>, subs |-> <<>>,
                   result |-> NotFromUser]

\* ConversationalFlowAnalyzer.analyze on the conversation
AnalyzeFlow ==
    /\ probe.fn = "ConversationalFlowAnalyzer.analyze"
    /\ ~probe.applied
    /\ ~ConversationalFlowAnalyze(probe.messages).threw
    /\ probe' = [probe EXCEPT
                   !.applied = TRUE,
                   !.subs = FlowSubs(probe.messages),
                   !.flowIndicators = FlowIndicators(FlowSubs(probe.messages)),
                   !.result = ConversationalFlowAnalyze(probe.messages).res]
    /\ UNCHANGED << conv, enableLLMMetaJudge, pc, trackOrder, status, fastResults, settled,
                    fastScore, shouldRunLLM, reply, llmResult, outcome, analyzeCalls, modelCalls,
                    other, response, client >>

SpecFlow == InitFlow /\ [][AnalyzeFlow]_vars

\* RelevanceOrchestrator.setAiName: the orchestrator and the analyzers built
\* with the assistant's name each hold their own aiName field; the
\* constructor gives all of them config.aiName
AiNames == {"Mirai", "Nova", "Aria", "Kai"}
NamedHeuristics == {NameMentionHeuristic, LLMMetaJudge}
\* `if (h.setAiName)`: LLMMetaJudge defines the method, NameMentionHeuristic
\* does not
hasSetAiName(h) == h = LLMMetaJudge

InitRename ==
    /\ NoCall
    /\ \E configured \in AiNames :
          probe = [fn |-> "setAiName", renamed |-> FALSE, requests |-> 0, sinceRename |-> 0,
                   aiName |-> configured,
                   heuristics |-> [h \in NamedHeuristics |-> configured],
                   used |-> [h \in NamedHeuristics |-> configured]]

setAiName ==
    /\ probe.fn = "setAiName"
    /\ \E n \in AiNames :
          probe' = [probe EXCEPT
                      !.renamed = TRUE,
                      !.sinceRename = 0,
                      !.aiName = n,
                      !.heuristics = [h \in NamedHeuristics |->
                                        IF hasSetAiName(h) THEN n ELSE probe.heuristics[h]]]
    /\ UNCHANGED << conv, enableLLMMetaJudge, pc, trackOrder, status, fastResults, settled,
                    fastScore, shouldRunLLM, reply, llmResult, outcome, analyzeCalls, modelCalls,
                    other, response, client >>

\* a request: NameMentionHeuristic.analyze matches this.aiName in the
\* content, LLMMetaJudge writes this.aiName into its prompts
AnalyzeNamed ==
    /\ probe.fn = "setAiName"
    /\ probe.requests < MaxTurns
    /\ probe' = [probe EXCEPT
                   !.requests = @ + 1,
                   !.sinceRename = @ + 1,
                   !.used = probe.heuristics]
    /\ UNCHANGED << conv, enableLLMMetaJudge, pc, trackOrder, status, fastResults, settled,
                    fastScore, shouldRunLLM, reply, llmResult, outcome, analyzeCalls, modelCalls,
                    other, response, client >>

NextRename == setAiName \/ AnalyzeNamed
SpecRename == InitRename /\ [][NextRename]_vars

\* the tokens of the contents NameMentionHeuristic is applied to: greeting,
\* two aliases, the name, comma, space, an imperative, an action and a
\* question word
Vocabulary == {"hey", "ai", "bot", "mirai", ",", " ", "can", "tell", "what"}

\* the number of characters of a token
Chars(token) ==
    IF token \in {",", " "} THEN 1
    ELSE IF token = "ai" THEN 2
    ELSE IF token \in {"hey", "bot", "can"} THEN 3
    ELSE IF token = "mirai" THEN 5 ELSE 4

RECURSIVE TextLength(_)
TextLength(tokens) == IF tokens = <<>> THEN 0 ELSE Chars(Head(tokens)) + TextLength(Tail(tokens))

\* the token sequences of contents: two words are never adjacent
Texts ==
    {t \in UNION {[1..k -> Vocabulary] : k \in 1..MaxTextLen} :
        \A k \in 1..(Len(t) - 1) : t[k] \in NonWord \/ t[k + 1] \in NonWord}

InitName ==
    /\ NoCall
    /\ \E t \in Texts :
          probe = [fn |-> "NameMentionHeuristic.analyze", applied |-> FALSE,
                   content |-> Content(t, TextLength(t)), result |-> NotFromUser]

\* analyze(messages) of NameMentionHeuristic on the one user message
AnalyzeName ==
    /\ probe.fn = "NameMentionHeuristic.analyze"
    /\ ~probe.applied
    /\ probe' = [probe EXCEPT
                   !.applied = TRUE,
                   !.result = NameMentionAnalyze(
                                  FactsOf(<<Message("user", probe.content)>>)).res]
    /\ UNCHANGED << conv, enableLLMMetaJudge, pc, trackOrder, status, fastResults, settled,
                    fastScore, shouldRunLLM, reply, llmResult, outcome, analyzeCalls, modelCalls,
                    other, response, client >>

SpecName == InitName /\ [][AnalyzeName]_vars

\* new SemanticSimilarityModule(config): `config.weight || 0.05`,
\* `config.minMessagesForFullWeight || 6`, `config.minWeight || 0.01`
SemanticSimilarityConfig(weight, full, min) ==
    [baseWeight |-> OrElse(weight, Dec2(5)),
     minMessagesForFullWeight |-> IF full = 0 THEN minMessagesForFullWeight ELSE full,
     minWeight |-> OrElse(min, minWeight)]

\* calculateDynamicWeight(conversationLength) of a module configured as `this`
calculateDynamicWeightOf(this, conversationLength) ==
    IF conversationLength <= 2 THEN this.minWeight
    ELSE IF conversationLength <= 4 THEN RMul(this.baseWeight, Dec1(5))
    ELSE IF conversationLength < this.minMessagesForFullWeight
    THEN LET progress == Rat(conversationLength - 4, this.minMessagesForFullWeight - 4)
         IN  RMul(this.baseWeight, RAdd(Dec1(5), RMul(Dec1(5), progress)))
    ELSE this.baseWeight

\* the base weights a module is configured with: none given, and from 0.01
\* to 0.2
ConfiguredWeights == {Undefined, Dec2(1), Dec2(2), Dec2(5), Dec1(2)}

InitRamp ==
    /\ NoCall
    /\ \E weight \in ConfiguredWeights, full \in 0..MaxFullCount :
          probe = [fn |-> "calculateDynamicWeight",
                   this |-> SemanticSimilarityConfig(weight, full, Undefined),
                   weights |-> <<>>]

\* the weight of a conversation one message longer
RampStep ==
    /\ probe.fn = "calculateDynamicWeight"
    /\ Len(probe.weights) < MaxTurns
    /\ probe' = [probe EXCEPT !.weights =
                    Append(@, calculateDynamicWeightOf(probe.this, Len(probe.weights) + 1))]
    /\ UNCHANGED << conv, enableLLMMetaJudge, pc, trackOrder, status, fastResults, settled,
                    fastScore, shouldRunLLM, reply, llmResult, outcome, analyzeCalls, modelCalls,
                    other, response, client >>

SpecRamp == InitRamp /\ [][RampStep]_vars

(***************************************************************************)
(* Properties                                                              *)
(***************************************************************************)
Done == pc = "done"
NonEmpty == conv.len > 0
InRange(x, lo, hi) == IsNumber(x) /\ RLe(lo, x) /\ RLe(x, hi)

\* C1: for a non-empty conversation, whatever the analyzers do (results,
\* faults, judge invoked, skipped, failed or disabled), the score that
\* analyzeRelevance returns is a number between 1 and 10
C1_ReturnedScoreInRange ==
    (Done /\ NonEmpty) => InRange(outcome.score, Num(1), Num(10))

\* the last message is the assistant's: every heuristic scores 0, the fused
\* score is 0 and the returned score is raised to 1
C1_FloorApplied ==
    /\ Done /\ NonEmpty
    /\ outcome.finalScore = Num(0)
    /\ outcome.score = Num(1)

\* C2: for a non-empty conversation analyzeRelevance ends in the end, and it
\* ends by returning a score and a reasoning, never by throwing, whichever
\* fast heuristics throw and whatever becomes of the model call
C2_AlwaysReturns ==
    <>(Done /\ outcome.returned /\ IsNumber(outcome.score) /\ outcome.reasoning.decision # "")

\* the last message has no text: fast heuristics throw, the judge is invoked
\* and its model call fails, and still a score is returned
C2_ReturnsDespiteFaults ==
    /\ Done /\ NonEmpty /\ outcome.returned
    /\ \E i \in FastIdx : Analyze(i, conv).threw
    /\ reply.kind = "error"

\* the fast heuristics that throw on this conversation
Faulty == {i \in FastIdx : Analyze(i, conv).threw}

\* C3: in the fan-out a fast heuristic that throws is replaced by the fallback
\* (score 5.0, confidence 0.1, a reasoning that names it), every other slot
\* holds exactly what that heuristic returns, and the batch is not aborted
C3_FaultIsolated ==
    /\ \A i \in FastIdx :
          status[i] = "settled" =>
             LET out == Analyze(i, conv)
             IN  IF out.threw
                 THEN /\ fastResults[i].name = heuristics[i]
                      /\ fastResults[i].score = Num(5)
                      /\ fastResults[i].confidence = Dec1(1)
                      /\ fastResults[i].reasoning = <<"Error in", heuristics[i]>>
                 ELSE fastResults[i] = Entry(heuristics[i], out.res)
    /\ outcome # FailedOutcome
    /\ (Done /\ NonEmpty) => SubSeq(outcome.heuristicResults, 1, Len(heuristics) - 1) = fastResults

\* the join has resolved with exactly one fallback among the four entries
C3_OneFaultJoined ==
    /\ pc = "judge_decision"
    /\ Cardinality(Faulty) = 1
    /\ \E i \in FastIdx : fastResults[i].reasoning = <<"Error in", heuristics[i]>>

\* the judge's entry when the model call failed (the call rejects, or the
\* completion carries no message text)
JudgeCallFailed == reply.kind = "error"
\* the judge's entry when the model's text is no JSON
JudgeUnparsable == reply.kind = "text"

\* C4 (as amended): LLMMetaJudge.analyze never throws once it has issued its
\* model call.  When the call fails it returns score 5.0, confidence 0.3 and the
\* reasoning "LLM analysis failed".  When the text is no JSON it returns the
\* number the text gives after "score" (5.0 when it gives none) brought into
\* [1, 10], and the number it gives after "confidence" (0.5 when it gives
\* none) brought into [0.1, 1], with the fallback-parsing reasoning.
C4_JudgeFailureResults ==
    /\ reply # NoReply => llmResult.reasoning # <<"LLM Meta-Judge failed">>
    /\ JudgeCallFailed =>
          /\ llmResult.score = Num(5)
          /\ llmResult.confidence = Dec1(3)
          /\ llmResult.reasoning = <<"LLM analysis failed - using neutral score">>
    /\ JudgeUnparsable =>
          /\ llmResult.score =
                IF IsUndefined(reply.score) THEN Num(5)
                ELSE IF RLt(reply.score, Num(1)) THEN Num(1)
                ELSE IF RGt(reply.score, Num(10)) THEN Num(10) ELSE reply.score
          /\ llmResult.confidence =
                IF IsUndefined(reply.confidence) THEN Dec1(5)
                ELSE IF RLt(reply.confidence, Dec1(1)) THEN Dec1(1)
                ELSE IF RGt(reply.confidence, Num(1)) THEN Num(1) ELSE reply.confidence
          /\ llmResult.reasoning = <<"LLM Meta-Judge", "fallback parsing">>

\* a failed model call has been turned into the neutral result
C4_CallFailedNeutral ==
    /\ pc = "final_fuse" /\ JudgeCallFailed
    /\ llmResult.score = Num(5) /\ llmResult.confidence = Dec1(3)

\* C4 (as claimed): when the model call fails or the text cannot be parsed,
\* analyze returns score 5.0 and confidence 0.3
C4_AsClaimed ==
    (JudgeCallFailed \/ JudgeUnparsable) =>
        /\ llmResult.score = Num(5)
        /\ llmResult.confidence = Dec1(3)

\* C5 (as claimed): when the judge is invoked and its model call fails or its
\* text cannot be parsed, the judge entry that is fused has the fast score as
\* its score, and confidence 0.3
C5_AsClaimed ==
    (JudgeCallFailed \/ JudgeUnparsable) =>
        /\ llmResult.score = fastScore
        /\ llmResult.confidence = Dec1(3)

\* the fast stage is over: Promise.all has resolved and fastScore is computed
Joined == pc \notin {"start", "fan_out"}
\* llmMetaJudge.analyze(messages) has been called
JudgeInvoked == analyzeCalls[JudgeIdx] > 0
\* the 'direct name + question' override on the fast results
Override ==
    /\ RGe(fastResults[FindIdx(fastResults, NameMentionHeuristic)].score, Num(8))
    /\ RGe(fastResults[FindIdx(fastResults, PronounSyntaxHeuristic)].score, Num(6))
\* max(score) - min(score) over the fast results
Spread ==
    RSub(RMaxOf([i \in FastIdx |-> fastResults[i].score]),
         RMinOf([i \in FastIdx |-> fastResults[i].score]))

\* C6: when fastScore is 8.5 or above and the override (name score >= 8 and
\* syntax score >= 6) does not hold, the judge is not invoked, whatever the
\* spread of the scores and the mean confidence
C6_HighScoreSkipsJudge ==
    (Joined /\ NonEmpty /\ RGe(fastScore, Rat(85, 10)) /\ ~Override) =>
        (~JudgeInvoked /\ pc \notin {"judge_invoke", "judge_wait"})

\* a request with the judge enabled, fastScore >= 8.5, no override and scores
\* more than 4 apart has returned without the judge
C6_SkippedDespiteSpread ==
    /\ Done /\ NonEmpty /\ enableLLMMetaJudge
    /\ RGe(fastScore, Rat(85, 10)) /\ ~Override
    /\ RGt(Spread, Num(4))
    /\ ~JudgeInvoked /\ ~outcome.llmUsed

\* C7: with the judge enabled, a request whose fastScore lies in [3, 8] invokes
\* the judge
C7_MiddleBandInvokesJudge ==
    (Joined /\ pc # "judge_decision" /\ NonEmpty /\ enableLLMMetaJudge
       /\ RGe(fastScore, Num(3)) /\ RLe(fastScore, Num(8))) =>
        (JudgeInvoked \/ pc = "judge_invoke")

\* a request with fastScore exactly 5.0 has returned with the judge's entry
C7_FiveInvokes ==
    /\ Done /\ enableLLMMetaJudge
    /\ fastScore = Num(5)
    /\ JudgeInvoked /\ outcome.llmUsed

\* C8: the judge is called only after all four fast heuristics have settled
\* and fastScore has been computed from the joined results; it never runs
\* beside a fast heuristic of the request
C8_JudgeAfterJoin ==
    (JudgeInvoked \/ modelCalls > 0 \/ pc \in {"judge_invoke", "judge_wait"}) =>
        /\ \A i \in FastIdx : status[i] = "settled" /\ fastResults[i].name = heuristics[i]
        /\ IsNumber(fastScore)
        /\ fastScore = calculateWeightedScore(fastResults)

\* the model call is in flight, all four fast heuristics having settled
C8_CallInFlight ==
    /\ pc = "judge_wait" /\ modelCalls = 1
    /\ \A i \in FastIdx : status[i] = "settled"

\* C9: a request issues at most one model call and calls each heuristic's
\* analyze() at most once; once the model call has ended, failed or not, the
\* request is at the final fusion or has returned
C9_NoRetry ==
    /\ modelCalls <= 1
    /\ \A i \in DOMAIN heuristics : analyzeCalls[i] <= 1
    /\ reply # NoReply => pc \in {"final_fuse", "done"}

\* a request has returned after its one model call failed
C9_ReturnedAfterFailure ==
    /\ Done /\ JudgeCallFailed
    /\ modelCalls = 1 /\ analyzeCalls[JudgeIdx] = 1

\* the fast entries taken in the order of the heuristics list
RefFast == [i \in FastIdx |-> FastOutcome(i, conv)]

\* C10: for a conversation (and a reply of the model), the fast score, the
\* judge decision, the final score and the reasoning are those computed from
\* the heuristics in list order, in whatever order the four fast heuristics
\* completed
C10_OrderIndependent ==
    /\ pc = "judge_decision" => fastScore = calculateWeightedScore(RefFast)
    /\ (Done /\ NonEmpty) =>
          LET refFast == RefFast
              refFastScore == calculateWeightedScore(refFast)
              refShouldRun == shouldRunLLMMetaJudge(refFast, refFastScore)
              refAll == IF llmResult # NoEntry THEN Append(refFast, llmResult) ELSE refFast
              refFinalScore == calculateWeightedScore(refAll)
          IN  /\ outcome.fastScore = refFastScore
              /\ outcome.llmUsed = (refShouldRun /\ enableLLMMetaJudge)
              /\ outcome.finalScore = refFinalScore
              /\ outcome.score = ClampScore(refFinalScore)
              /\ outcome.reasoning = generateReasoning(refAll, refFinalScore)

\* a request has returned whose fast heuristics completed in the reverse of
\* the list order, two of its entries contributing equally to the reasoning
C10_ReverseOrderTie ==
    /\ Done /\ settled = <<4, 3, 2, 1>>
    /\ \E i, j \in FastIdx :
          /\ i < j
          /\ Contribution(fastResults[i]) = Contribution(fastResults[j])
          /\ RGt(Contribution(fastResults[i]), Num(0))

\* the value a request returns when it is the only one the instance serves:
\* the model's reply is r when the judge's call is issued
ServedAlone(messages, enabled, r) ==
    IF messages.len = 0 THEN EmptyOutcome
    ELSE LET results == [i \in FastIdx |-> FastOutcome(i, messages)]
             fast == calculateWeightedScore(results)
             llm == IF shouldRunLLMMetaJudge(results, fast) /\ enabled
                    THEN JudgeEntry(LLMMetaJudgeAnalyze(messages, r), fast)
                    ELSE NoEntry
         IN  ReturnValue(results, llm, fast)

SameAnswer(a, b) == a.returned /\ b.returned /\ a.score = b.score /\ a.reasoning = b.reasoning

BothDone == Done /\ other.pc = "done"

C12_ConcurrentAsAlone ==
    /\ Done => SameAnswer(outcome, ServedAlone(conv, enableLLMMetaJudge, reply))
    /\ other.pc = "done" =>
          SameAnswer(other.outcome, ServedAlone(other.conv, enableLLMMetaJudge, other.reply))

\* the first request has returned with the judge's entry while the second,
\* on another conversation, is still waiting for its own model call
C12_ReturnedWhileOtherWaits ==
    /\ Done /\ outcome.llmUsed /\ reply # NoReply
    /\ other.pc = "judge_wait"
    /\ other.conv # conv
    /\ other.fastScore # fastScore

\* the deadline expired while the judge's model call was pending
ExpiredInJudgeCall == client.expiredAt = "judge_wait"

\* C13 as stated: when the deadline expires while the judge's call is
\* pending, the call is aborted and the request completes with a score that
\* comes from the fast-stage fusion, as after any other judge failure.
C13_AsClaimed ==
    (ExpiredInJudgeCall /\ Done) =>
        /\ llmResult.score \in {fastScore, Num(5)} /\ llmResult.confidence = Dec1(3)
        /\ IsNumber(client.score)

\* C13: when the page's deadline expires while the judge's call is pending,
\* only the page's fetch is aborted: the page shows the time-out and never a
\* score, the judge's call goes on, and analyzeRelevance returns what it
\* returns without a deadline, the judge's reply included.
C13_DeadlineAbortsOnlyTheFetch ==
    /\ client.expiredAt # "" => client.state = "timed_out" /\ ~IsNumber(client.score)
    /\ (ExpiredInJudgeCall /\ Done) =>
           SameAnswer(outcome, ServedAlone(conv, enableLLMMetaJudge, reply))

\* the deadline expired during the model call, the model then answered 9
\* with confidence 0.9, and the response with the fused score was sent
C13_ReplyUsedAfterDeadline ==
    /\ ExpiredInJudgeCall /\ Done
    /\ reply = Reply("json", Num(9), Dec1(9))
    /\ outcome.llmUsed /\ llmResult.score = Num(9)
    /\ response.status = 200
    /\ client.state = "timed_out"

\* C17: the action of the response is a function of the score with
\* inclusive lower thresholds: respond from 7, maybe_respond from 4 and
\* below 7, ignore below 4; the page's label follows the same thresholds.
C17_ActionThresholds ==
    response.status = 200 =>
        LET s == response.relevanceScore
        IN  /\ response.action \in {"respond", "maybe_respond", "ignore"}
            /\ response.action = "respond" <=> RGe(s, Num(7))
            /\ response.action = "maybe_respond" <=> (RGe(s, Num(4)) /\ RLt(s, Num(7)))
            /\ response.action = "ignore" <=> RLt(s, Num(4))
            /\ client.state = "result" =>
                  /\ client.score = s
                  /\ client.label = "Respond" <=> response.action = "respond"
                  /\ client.label = "Maybe Respond" <=> response.action = "maybe_respond"
                  /\ client.label = "Do Not Respond" <=> response.action = "ignore"

\* a response whose score is exactly 7 carries respond, and the page shows it
C17_SevenResponds ==
    /\ response.status = 200 /\ response.relevanceScore = Num(7)
    /\ response.action = "respond"
    /\ client.state = "result" /\ client.label = "Respond"

\* the average of the syntax and flow scores, which decides the damping
ProbeOtherAverage == RDiv(RAdd(probe.syn.score, probe.flow.score), Num(2))

\* C14: with the syntax, flow and topical results equal, the fused score
\* with a direct address (10, confidence 1.0) strictly exceeds the fused
\* score with a third-person reference (1, confidence 0.9), whatever the
\* other three results are and whichever damping (0.3, 0.7, none) applies;
\* so do the scores returned after clamping.
C14_DirectAboveThirdPerson ==
    (probe.fn = "calculateWeightedScore" /\ probe.applied) =>
        /\ DirectEntry.score = Num(10) /\ DirectEntry.confidence = Num(1)
        /\ ThirdPersonEntry.score = Num(1) /\ ThirdPersonEntry.confidence = Dec1(9)
        /\ RGt(probe.direct, probe.third)
        /\ RGt(ClampScore(probe.direct), ClampScore(probe.third))

\* the name weight is damped to 0.3 of itself and the other three results
\* are all 0: the direct address still fuses above the third-person reference
C14_DampedToThreeTenths ==
    /\ probe.fn = "calculateWeightedScore" /\ probe.applied
    /\ RLt(ProbeOtherAverage, Num(4))
    /\ AdjustedWeight(<<DirectEntry, probe.syn, probe.flow, probe.sem>>, 1)
          = RMul(getWeight(NameMentionHeuristic), Dec1(3))
    /\ probe.syn.score = Num(0) /\ probe.flow.score = Num(0) /\ probe.sem.score = Num(0)
    /\ RGt(probe.direct, probe.third)

\* C15 as stated: for every configured base weight and full-weight count,
\* the dynamic weight does not decrease as the conversation grows from 1 to
\* the full-weight count, and is the full base weight from that count on.
C15_AsClaimed ==
    probe.fn = "calculateDynamicWeight" =>
        LET w == probe.weights
            full == probe.this.minMessagesForFullWeight
        IN  /\ \A n \in 1..Len(w) : n > 1 /\ n <= full => RLe(w[n - 1], w[n])
            /\ \A n \in 1..Len(w) : n >= full => w[n] = probe.this.baseWeight

\* C16 as stated: every entry of the returned details.heuristicResults (the
\* fast analyzers' results, the fallback entries of analyzers that threw and
\* the judge's entry when present) has 0 <= score <= 10 and
\* 0 <= confidence <= 1.
C16_AsClaimed ==
    Done =>
        \A k \in DOMAIN outcome.heuristicResults :
            /\ InRange(outcome.heuristicResults[k].score, Num(0), Num(10))
            /\ InRange(outcome.heuristicResults[k].confidence, Num(0), Num(1))

\* the behaviours of the Model-Judge the scenarios speak of: disabled (never
\* called), failing, or answering in JSON with a score in 1..10 and a
\* confidence in 0..1
JudgeAsExpected ==
    \/ reply.kind \in {"none", "error"}
    \/ /\ reply.kind = "json"
       /\ RGe(reply.score, Num(1)) /\ RLe(reply.score, Num(10))
       /\ RGe(reply.confidence, Num(0)) /\ RLe(reply.confidence, Num(1))

NameEntry == fastResults[FindIdx(fastResults, NameMentionHeuristic)]

\* C18: for the single user message "Hey Mirai, what's the weather like
\* today?" the name heuristic returns 10, the fused score is at least 7 and
\* the action is respond, whether the judge is disabled, fails or answers.
C18_AsClaimed ==
    (conv = FactsOf(DirectAIMention) /\ response.status = 200 /\ JudgeAsExpected) =>
        /\ NameEntry.score = Num(10)
        /\ RGe(response.relevanceScore, Num(7))
        /\ response.action = "respond"

\* C19: for the assistant's question about Japanese food and the answer
\* "Maybe sushi? But I don't know where to start." the follow-up sub-score
\* is at least 8, the fused score at least 7 and the action respond,
\* whatever the judge does.
C19_AsClaimed ==
    (conv = FactsOf(ConversationalFollowUp) /\ response.status = 200 /\ JudgeAsExpected) =>
        /\ analyzeFollowUp(conv).score >= 8
        /\ RGe(response.relevanceScore, Num(7))
        /\ response.action = "respond"

SyntaxEntry == fastResults[FindIdx(fastResults, PronounSyntaxHeuristic)]

\* the 'very clear direct address' of the fast results: name score 10 with
\* confidence 0.8 or more, and syntax score 6 or more
ClearDirectAddress ==
    /\ RGe(NameEntry.score, Num(10)) /\ RGe(NameEntry.confidence, Dec1(8))
    /\ RGe(SyntaxEntry.score, Num(6))

\* C21 as stated: fastScore is the confidence-weighted average of the fast
\* results, with the name damping and without the clarity bonus.
C21_AsClaimed ==
    (Joined /\ NonEmpty /\ outcome # FailedOutcome) =>
        fastScore = MathMin(Num(10), weightedAverage(fastResults))

\* C21: fastScore is computed by the fusion that also computes the final
\* score: the confidence-weighted average of the four fast results with the
\* name damping, plus the clarity bonus of 1 when the name score is 10 with
\* confidence of 0.8 or more and the syntax score is 6 or more, capped at 10.
\* The judge decision is the one the average without the bonus would give,
\* because every result that earns the bonus meets the override.
C21_FastScoreCarriesBonus ==
    (Joined /\ NonEmpty /\ outcome # FailedOutcome) =>
        LET average == weightedAverage(fastResults)
        IN  /\ fastScore = MathMin(Num(10), RAdd(average,
                                                 IF ClearDirectAddress THEN Num(1) ELSE Num(0)))
            /\ ClearDirectAddress => shouldRunLLMMetaJudge(fastResults, average)
            /\ pc # "judge_decision" =>
                  shouldRunLLM = shouldRunLLMMetaJudge(fastResults, average)

\* a fast score that is the weighted average plus 1, on which the judge
\* decision has been taken
C21_BonusInFastScore ==
    /\ pc = "judge_invoke"
    /\ ClearDirectAddress
    /\ RLt(weightedAverage(fastResults), Num(9))
    /\ fastScore = RAdd(weightedAverage(fastResults), Num(1))

FlowEntry == fastResults[FindIdx(fastResults, ConversationalFlowAnalyzer)]

\* the factor on the name weight for a mean of the other scores
DampingFor(mean) ==
    IF RLt(mean, Num(4)) THEN Dec1(3) ELSE IF RLt(mean, Num(6)) THEN Dec1(7) ELSE Num(1)

\* the mean of the syntax and flow scores, and the mean of these and the
\* score of the judge's entry
FastMean == RDiv(RAdd(OrElse(SyntaxEntry.score, Num(0)), OrElse(FlowEntry.score, Num(0))), Num(2))
MeanWithJudge ==
    RDiv(RAdd(RAdd(OrElse(SyntaxEntry.score, Num(0)), OrElse(FlowEntry.score, Num(0))),
              OrElse(llmResult.score, Num(0))), Num(3))

\* the request has returned a fused score and its name score is 8 or more
ReturnedStrongName ==
    /\ Done /\ NonEmpty /\ outcome # FailedOutcome
    /\ RGe(NameEntry.score, Num(8))

\* the weight the final fusion gives the name entry
FinalNameWeight ==
    AdjustedWeight(outcome.heuristicResults,
                   FindIdx(outcome.heuristicResults, NameMentionHeuristic))

\* C22 as stated: in the final fusion the factor on the name weight is
\* decided by the mean of the syntax and flow scores, as in the fast fusion;
\* the judge's score never changes it.
C22_AsClaimed ==
    ReturnedStrongName =>
        /\ FinalNameWeight = RMul(NameEntry.weight, DampingFor(FastMean))
        /\ FinalNameWeight = AdjustedWeight(fastResults, FindIdx(fastResults, NameMentionHeuristic))

\* C22: when the name score is 8 or more, the factor on the name weight
\* (0.3 for a mean below 4, 0.7 below 6, else 1) is decided in the fast
\* fusion by the mean of the syntax and flow scores, and in the final fusion
\* by the mean of the syntax score, the flow score and, when the judge was
\* invoked, the score of the judge's entry.
C22_JudgeScoreInDampingMean ==
    /\ (Joined /\ NonEmpty /\ outcome # FailedOutcome /\ RGe(NameEntry.score, Num(8))) =>
          AdjustedWeight(fastResults, FindIdx(fastResults, NameMentionHeuristic))
             = RMul(NameEntry.weight, DampingFor(FastMean))
    /\ ReturnedStrongName =>
          FinalNameWeight = RMul(NameEntry.weight,
                                 DampingFor(IF outcome.llmUsed THEN MeanWithJudge ELSE FastMean))

\* a judge answer has taken the name weight from the factor of the fast
\* fusion to another one
C22_JudgeMovedNameWeight ==
    /\ ReturnedStrongName /\ outcome.llmUsed
    /\ FinalNameWeight # AdjustedWeight(fastResults, FindIdx(fastResults, NameMentionHeuristic))
    /\ DampingFor(MeanWithJudge) # DampingFor(FastMean)

\* the mean of the confidences of the fast results
MeanConfidence ==
    RDiv(RSum([i \in DOMAIN fastResults |-> fastResults[i].confidence]), Num(Len(fastResults)))

\* the decision has been taken on the joined fast results
Decided == Joined /\ pc # "judge_decision" /\ NonEmpty /\ outcome # FailedOutcome

\* C23: the decision is invoke when the name score is 8 or more and the
\* syntax score 6 or more, whatever fastScore is; otherwise skip when
\* fastScore is 8.5 or more; otherwise invoke when fastScore lies in [3, 8];
\* otherwise invoke exactly when the scores are more than 4 apart or the
\* mean confidence is below 0.6.
C23_DecisionPriority ==
    Decided =>
        /\ Override => shouldRunLLM
        /\ (~Override /\ RGe(fastScore, Rat(85, 10))) => ~shouldRunLLM
        /\ (~Override /\ RGe(fastScore, Num(3)) /\ RLe(fastScore, Num(8))) => shouldRunLLM
        /\ (~Override /\ (RLt(fastScore, Num(3))
                            \/ (RGt(fastScore, Num(8)) /\ RLt(fastScore, Rat(85, 10))))) =>
              (shouldRunLLM <=> (RGt(Spread, Num(4)) \/ RLt(MeanConfidence, Dec1(6))))
        /\ IsNumber(fastScore)
        /\ (enableLLMMetaJudge /\ shouldRunLLM) => (JudgeInvoked \/ pc = "judge_invoke")
        /\ ~(enableLLMMetaJudge /\ shouldRunLLM) => ~JudgeInvoked

\* the override has invoked the judge on a fastScore of 8.5 or more
C23_OverrideBeatsSkip ==
    /\ Decided /\ Override
    /\ RGe(fastScore, Rat(85, 10))
    /\ shouldRunLLM /\ JudgeInvoked

\* x brought into [lo, hi]
Clamp(x, lo, hi) == IF RLt(x, lo) THEN lo ELSE IF RGt(x, hi) THEN hi ELSE x

\* C24: when the model's text parses as JSON with a numeric score s and a
\* numeric confidence c, the judge's entry has score clamp(s, 1, 10) and
\* confidence clamp(c, 0.1, 1.0); in particular a score of 0 gives 1 and a
\* confidence of 0 gives 0.1.
C24_AsClaimed ==
    (reply.kind = "json" /\ IsNumber(reply.score) /\ IsNumber(reply.confidence)) =>
        /\ llmResult.score = Clamp(reply.score, Num(1), Num(10))
        /\ llmResult.confidence = Clamp(reply.confidence, Dec1(1), Num(1))

\* the aliases of NameMentionHeuristic, lower-cased
Aliases == {"ai", "assistant", "bot"}

\* a direct-address context of one of the names: greeting and name, name
\* and comma or colon, name and an imperative, question or action word, or
\* "ask"/"tell" and name
DirectContextOf(names, content) ==
    \/ AtStart(content, <<One({"hey", "hi", "hello", "yo"}), CommaSp, One(names)>>)
    \/ Search(content, <<One(names), One({",", ":"})>>)
    \/ Search(content, <<One(names), Sp, One({",", ":"})>>)
    \/ Search(content, <<One(names), CommaSp,
                         One({"can", "could", "would", "will", "please", "help", "what", "how",
                              "why", "when", "where", "who", "tell", "show", "give", "find",
                              "get", "explain", "describe"})>>)
    \/ Search(content, <<One({"ask", "tell"}), Sp, One(names)>>)

\* NameMentionHeuristic has been applied to a content with an alias and
\* without the name
AliasOnly ==
    /\ probe.fn = "NameMentionHeuristic.analyze" /\ probe.applied
    /\ \E k \in DOMAIN probe.content.tokens : probe.content.tokens[k] \in Aliases
    /\ \A k \in DOMAIN probe.content.tokens : probe.content.tokens[k] # aiName

\* C25: a content with an alias and without the name is given 8 when the
\* alias stands in a direct-address context, and 2 otherwise.
C25_AsClaimed ==
    AliasOnly =>
        probe.result.score = IF DirectContextOf(Aliases, probe.content) THEN Num(8) ELSE Num(2)
C27_NoCallKeepsFastScore ==
    /\ ~enableLLMMetaJudge => ~JudgeInvoked
    /\ (Done /\ Decided /\ ~JudgeInvoked) =>
          /\ ~enableLLMMetaJudge \/ ~shouldRunLLM
          /\ outcome.returned
          /\ IsNumber(outcome.fastScore)
          /\ outcome.fastScore = fastScore
          /\ outcome.finalScore = outcome.fastScore
          /\ ~outcome.llmUsed
          /\ outcome.heuristicResults = fastResults
          /\ Len(outcome.heuristicResults) = 4
          /\ \A i \in FastIdx : outcome.heuristicResults[i].name = heuristics[i]

\* a disabled judge that the decision would have run: no call, and the
\* returned score is the clamped fast score
C27_DisabledJudgeWanted ==
    /\ Done /\ Decided
    /\ ~enableLLMMetaJudge /\ shouldRunLLM /\ ~JudgeInvoked
    /\ modelCalls = 0
    /\ outcome.finalScore = fastScore /\ RGt(fastScore, Num(1))
    /\ outcome.score = fastScore
    /\ ~outcome.llmUsed /\ Len(outcome.heuristicResults) = 4

\* C28: for a non-empty conversation whose last message is the assistant's,
\* the four fast results are score 0 with confidence 1.0, fastScore is 0,
\* the decision is skip and the judge is never invoked, and the returned
\* score is exactly 1, whose action is ignore.
AssistantLast == NonEmpty /\ ~LastIsNull(conv) /\ LastRole(conv) = "assistant"
C28_AssistantLastIsIgnored ==
    AssistantLast =>
        /\ ~JudgeInvoked /\ modelCalls = 0
        /\ outcome # FailedOutcome
        /\ pc \notin {"judge_invoke", "judge_wait"}
        /\ Joined =>
              /\ \A i \in FastIdx : /\ fastResults[i].name = heuristics[i]
                                     /\ fastResults[i].score = Num(0)
                                     /\ fastResults[i].confidence = Num(1)
              /\ fastScore = Num(0)
        /\ Decided => ~shouldRunLLM
        /\ Done => /\ outcome.returned
                   /\ outcome.fastScore = Num(0) /\ outcome.finalScore = Num(0)
                   /\ ~outcome.llmUsed
                   /\ outcome.score = Num(1)
                   /\ action(outcome.score) = "ignore"

\* the longest conversation ending with the assistant, the judge enabled:
\* returned with score 1 and no call of the judge
C28_AssistantLastReturned ==
    /\ AssistantLast /\ Done /\ enableLLMMetaJudge
    /\ conv.len = MaxConvLen
    /\ outcome.score = Num(1) /\ outcome.fastScore = Num(0)
    /\ analyzeCalls[JudgeIdx] = 0
    /\ \A i \in FastIdx : analyzeCalls[i] = 1

\* C29: for a conversation whose last message is the user's, a returning
\* flow analysis records between one and four indicators: continuity always
\* among them, follow-up and gap never together. Its score is at least 3,
\* its confidence 0.6 + 0.1 per indicator and so at least 0.7, and the
\* neutral result of score 4 with confidence 0.5 is never returned.
FlowApplied == probe.fn = "ConversationalFlowAnalyzer.analyze" /\ probe.applied
C29_FlowNeverNeutral ==
    FlowApplied =>
        /\ LastRole(probe.messages) = "user"
        /\ Len(probe.flowIndicators) \in 1..4
        /\ probe.subs[2].score > 0
        /\ ~(probe.subs[1].score > 0 /\ probe.subs[4].score > 0)
        /\ RGe(probe.result.score, Num(3))
        /\ probe.result.confidence
              = MathMin(Num(1), RAdd(Dec1(6), RMul(Num(Len(probe.flowIndicators)), Dec1(1))))
        /\ RGe(probe.result.confidence, Dec1(7))
        /\ ~(probe.result.score = Num(4) /\ probe.result.confidence = Dec1(5))
        /\ probe.result.reasoning # <<"No clear conversational flow indicators">>

\* a single user message: continuity alone fires, with its lowest score
C29_ContinuityAlone ==
    /\ FlowApplied
    /\ probe.messages.len = 1
    /\ Len(probe.flowIndicators) = 1
    /\ probe.flowIndicators[1] = "Limited conversation history"
    /\ probe.result.score = Num(3)
    /\ probe.result.confidence = Dec1(7)

\* C30: after setAiName(n) the name heuristic and the judge both hold n, the
\* orchestrator's aiName, and use it in every request that follows.
Renamed == probe.fn = "setAiName" /\ probe.renamed
C30_AsClaimed ==
    Renamed =>
        \A h \in NamedHeuristics :
            /\ probe.heuristics[h] = probe.aiName
            /\ probe.sinceRename > 0 => probe.used[h] = probe.aiName

====
